---- MODULE Spec2Model ----
(***************************************************************************)
(* The wardrobe client: App with its three tabs (wardrobe, outfits, stats), *)
(* the slot-based outfit builder, the outfit resolver calls, the rating /  *)
(* retrain flow and the recent-ratings cache of OutfitsTab, the grid, the   *)
(* detail view, delete and upload of WardrobeTab, the values StatsTab       *)
(* shows, and the App state they share (stats, the anchor item handed over  *)
(* by the wardrobe tab, the blocking loading overlay).                      *)
(*                                                                         *)
(* The repository holds two builds of the OutfitsTab component:            *)
(*   src/unnamed/part_005                       (variant "part_005")       *)
(*   src/threadedApp/components/tabs/OutfitsTab.tsx (variant "OutfitsTab") *)
(* They differ in selectItemForSlot, in the anchor effect and in the       *)
(* random button.  The variant is fixed in Init and every handler is       *)
(* translated from the build it belongs to.  Both call buildOutfit of      *)
(* services/api.ts, which the sources do not hold: BuildCall follows the   *)
(* written specification for it.                                           *)
(*                                                                         *)
(* One step of the model is one JavaScript task: a press handler with the  *)
(* render and the effects it causes, or the continuation of an async       *)
(* function after the awaited network call has settled, or a timer          *)
(* callback.  A handler's closure reads the state left by the previous      *)
(* step: a closure that runs on after an await still holds the state of    *)
(* the render it was created in.  App renders one tab at a time: a tab that *)
(* is left unmounts, its state is dropped and whatever it awaits stays      *)
(* outstanding (orphaned).                                                  *)
(*                                                                         *)
(* Each specification follows one feature over the same state: SpecBuilder *)
(* the builder (slots, resolver calls, recent cards), SpecSelect the item   *)
(* picker next to the resolver calls, SpecSlots select and clear, SpecRating *)
(* the rating flow (stars, rate and retrain calls, stats refetches, reset  *)
(* timer), SpecTabs the tab bar and the create-outfit button, and so on.   *)
(* A specification leaves out handlers and answers of the server, never a   *)
(* test inside a handler.                                                   *)
(*                                                                         *)
(* The loading overlay of App covers the tab bar and the tab's own screen;  *)
(* the detail view, the add modal and the item picker are Modals, drawn     *)
(* above the overlay, and their buttons take presses while it is shown.     *)
(***************************************************************************)
EXTENDS Integers, Sequences, FiniteSets, Bags, TLC

\* ------------------------------------------------------------------ bounds
\* requests that may be outstanding at once
MaxInFlight == 3
\* reset timers (setTimeout of handleRateOutfit) that may be pending at once
MaxTimers == 1
\* length of the longest rating history the server answers GET /ratings with
MaxHistory == 1
\* rateRequests stops counting here
MaxRateCount == 2
\* longest rating history GET /ratings answers with in SpecRecent
MaxFetched == 4
\* largest per-category count and largest total_ratings of a stats response
\* in SpecStatsTab
MaxCount == 4
\* most changes of the server's wardrobe (items deleted plus items uploaded)
MaxChanges == 1
\* most requests of the wardrobe tab outstanding at once
MaxPending == 2
\* most awaits of pickImage and uploadImage that are no request to the
\* server (permission, picker, image read, refresh timer) pending at once
MaxWaits == 1
MaxRatings == 12

\* ------------------------------------------------------------ input sets
\* null, for a slot or the picker slot (identifiers are non-empty strings)
NULL == "null"
UNDEFINED == "undefined"
\* null, for currentOutfit, stats and autoGenerateItem (objects otherwise)
Nil == [nil |-> TRUE]
\* null, for lastRating (a star value 1..5 otherwise)
NoRating == 0
Roles == {"shirt", "pants", "shoes"}
Variants == {"part_005", "OutfitsTab"}

\* The server's catalogue, in server order (GET /wardrobe/items).
Catalog ==
  << [clothing_id |-> "S1", item_type |-> "shirt"],
     [clothing_id |-> "S2", item_type |-> "shirt"],
     [clothing_id |-> "P1", item_type |-> "pants"],
     [clothing_id |-> "H1", item_type |-> "shoes"] >>

\* The wardrobe the server holds when the wardrobe tab mounts: two shirts, one
\* pair of pants and no shoes.
Wardrobe == SubSeq(Catalog, 1, 3)

\* The star values the user presses in the model (StarRating offers 1..5).
StarInputs == {4}

\* The five stars StarRating renders: [1, 2, 3, 4, 5].map
Stars == 1..5

\* The outfits a resolver call may answer with: every well-typed triple of
\* the catalogue, whatever the request held.
ServerOutfits ==
  { [shirt |-> s.clothing_id, pants |-> p.clothing_id, shoes |-> h.clothing_id,
     score |-> <<4, 5>>, score_source |-> "new_ml"] :
      s \in {Catalog[i] : i \in {j \in 1..Len(Catalog) : Catalog[j].item_type = "shirt"}},
      p \in {Catalog[i] : i \in {j \in 1..Len(Catalog) : Catalog[j].item_type = "pants"}},
      h \in {Catalog[i] : i \in {j \in 1..Len(Catalog) : Catalog[j].item_type = "shoes"}} }

\* The k-th rating ever stored by the server.
RatingNo(k) ==
  [id |-> k,
   shirt_id |-> IF k % 2 = 1 THEN "S1" ELSE "S2",
   pants_id |-> "P1",
   shoes_id |-> "H1",
   rating |-> IF k % 2 = 1 THEN 5 ELSE 2]

\* The rating history after n ratings, newest first (GET /ratings).
History(n) == [i \in 1..n |-> RatingNo(n + 1 - i)]

\* What GET /wardrobe/stats may answer with.
ServerStats == { [total_ratings |-> n] : n \in {5} }

\* The stats responses StatsTab is rendered with: any of the three counts may
\* be missing from wardrobe_items.
StatsInputs ==
  { [total_ratings |-> n, wardrobe_items |-> wi] :
      n \in 0..MaxRatings,
      wi \in UNION { [D -> 0..MaxCount] : D \in SUBSET Roles } }

\* The bodies of the responses that are not ok (FastAPI's {detail}): loadStats
\* does not look at response.ok and stores them like any other.
StatsErrors == { [detail |-> "Internal Server Error"] }

Categories == {"all", "shirt", "pants", "shoes"}
\* window.confirm exists on web; on a device Alert.alert asks
Platforms == {"web", "native"}
\* pickImage(source: 'camera' | 'gallery')
Sources == {"camera", "gallery"}

\* ------------------------------------------------------------------ state
VARIABLES
  variant,             \* which build of OutfitsTab is running
  mounted,             \* OutfitsTab: the mount effects have run
  stats,               \* App: the last stats response stored
  autoGenerateItem,    \* App: the anchor item handed to OutfitsTab
  loadingState,        \* App: the blocking overlay
  currentOutfit,       \* OutfitsTab state
  loading,
  lastRating,
  recentRatings,
  pickerModalVisible,
  pickerItems,
  currentPickerSlot,
  selectedItems,
  currentTab,          \* App: the tab rendered
  statsView,           \* StatsTab: the values it last rendered
  platform,            \* where the app runs
  serverItems,         \* the server's wardrobe, in the order it lists it
  wardrobeMounted,     \* WardrobeTab: the mount effects have run
  category,            \* WardrobeTab state
  wardrobeItems,       \* WardrobeTab's `items`
  wardrobeLoading,     \* WardrobeTab's `loading`
  selectedItem,
  itemModalVisible,
  itemFeatures,
  addModalVisible,
  uploadCategory,
  confirmDialog,       \* the item the native delete Alert is asking about
  waits,               \* bag of what pickImage and uploadImage await that
                       \* is no request to the server, the pending 2000 ms
                       \* callbacks of uploadImage among them
  inflight,            \* bag of the network requests not yet settled
  orphaned,            \* those of `inflight` and `waits` whose component
                       \* has unmounted since
  timers,              \* pending reset timers of the mounted OutfitsTab
  rateRequests,        \* rate requests issued since currentOutfit was last set
  lastStep             \* what the last task did: its name, input, effects

appVars == <<variant, mounted, stats, autoGenerateItem, loadingState>>
tabVars == <<currentOutfit, loading, lastRating, recentRatings,
             pickerModalVisible, pickerItems, currentPickerSlot,
             selectedItems>>
viewVars == <<currentTab, statsView>>
wardrobeVars == <<platform, serverItems, wardrobeMounted, category,
                  wardrobeItems,
                  wardrobeLoading, selectedItem, itemModalVisible,
                  itemFeatures, addModalVisible, uploadCategory,
                  confirmDialog, waits>>
vars == <<appVars, tabVars, inflight, orphaned, timers, rateRequests,
          lastStep, viewVars, wardrobeVars>>

\* ---------------------------------------------------------------- effects
\* The observable effects of one task, in program order.
Request(r) == [e |-> "request", req |-> r]
AlertFx(title, message) == [e |-> "alert", title |-> title, message |-> message]
SetLoadingStateFx(b) == [e |-> "setLoadingState", isLoading |-> b]
SetTimeoutFx == [e |-> "setTimeout"]

Step(op, arg, fx) == [op |-> op, arg |-> arg, fx |-> fx]

\* the requests among a task's effects, in order
RECURSIVE RequestsOf(_)
RequestsOf(fx) ==
  IF fx = <<>> THEN <<>>
  ELSE IF Head(fx).e = "request"
       THEN <<Head(fx).req>> \o RequestsOf(Tail(fx))
       ELSE RequestsOf(Tail(fx))

RECURSIVE BagOfSeq(_)
BagOfSeq(s) ==
  IF s = <<>> THEN EmptyBag ELSE SetToBag({Head(s)}) (+) BagOfSeq(Tail(s))

IsResolver(r) == r.kind \in {"build", "random"}

\* --------------------------------------------------------- request shapes
\* GET /wardrobe/stats, issued by App.loadStats; `andThen` is what the caller
\* awaiting it does once it has settled.
StatsCall(andThen) == [kind |-> "stats", andThen |-> andThen]
RatingsCall == [kind |-> "ratings"]
ItemsCall(itemType) == [kind |-> "items", item_type |-> itemType]
\* issuedSlots remembers the slots shown when the call left
RandomCall(slots) == [kind |-> "random", issuedSlots |-> slots]
\* A different literal, which C34 rules out: the shirt and the pants
\* identifiers change places.
RateCallSwapped(outfit, rating) ==
  [kind |-> "rate",
   body |-> [shirt_id |-> outfit.pants, pants_id |-> outfit.shirt,
             shoes_id |-> outfit.shoes, rating |-> rating]]

\* the rateOutfit call of handleRateOutfit
RateCall(outfit, rating) ==
  [kind |-> "rate",
   body |-> [shirt_id |-> outfit.shirt, pants_id |-> outfit.pants,
             shoes_id |-> outfit.shoes, rating |-> rating]]
RetrainCall == [kind |-> "retrain"]

\* A different literal, which C33 rules out: a null slot is sent as null.
OrUndefinedSendingNull(items, r) ==
  IF r \in DOMAIN items THEN items[r] ELSE UNDEFINED

\* `x || undefined` on an optional slot value
OrUndefined(items, r) ==
  IF r \in DOMAIN items /\ items[r] # NULL THEN items[r] ELSE UNDEFINED

\* the BuildOutfitRequest literal of generateOutfitFromBuilder
BuildOutfitRequest(items) ==
  [shirt_id |-> OrUndefined(items, "shirt"),
   pants_id |-> OrUndefined(items, "pants"),
   shoes_id |-> OrUndefined(items, "shoes")]

\* the buildOutfit call
BuildCall(items) == [kind |-> "build", body |-> BuildOutfitRequest(items)]

EmptySlots == [shirt |-> NULL, pants |-> NULL, shoes |-> NULL]

\* A different test, which C9 rules out: shirt and pants are enough.
AllFilledButShoes(items) == items.shirt # NULL /\ items.pants # NULL
\* newSelectedItems.shirt && newSelectedItems.pants && newSelectedItems.shoes
AllFilled(items) ==
  items.shirt # NULL /\ items.pants # NULL /\ items.shoes # NULL

SlotsOf(outfit) ==
  [shirt |-> outfit.shirt, pants |-> outfit.pants, shoes |-> outfit.shoes]
NotLoading == [isLoading |-> FALSE, message |-> ""]
Training == [isLoading |-> TRUE, message |-> "Training new model..."]

\* A different store, which C23 rules out: the whole response is kept.
SliceRecentUncapped(data) == data

\* data.slice(0, 3) of loadRecentRatings
SliceRecent(data) == SubSeq(data, 1, IF Len(data) < 3 THEN Len(data) ELSE 3)

\* the server's answer to GET /wardrobe/items?item_type=
RECURSIVE FilterType(_, _)
FilterType(items, itemType) ==
  IF items = <<>> THEN <<>>
  ELSE IF Head(items).item_type = itemType
       THEN <<Head(items)>> \o FilterType(Tail(items), itemType)
       ELSE FilterType(Tail(items), itemType)

Elements(s) == {s[i] : i \in 1..Len(s)}

\* the slots a resolver call was issued with
IssuedSlots(r) ==
  IF r.kind = "random" THEN r.issuedSlots
  ELSE [shirt |-> IF r.body.shirt_id = UNDEFINED THEN NULL ELSE r.body.shirt_id,
        pants |-> IF r.body.pants_id = UNDEFINED THEN NULL ELSE r.body.pants_id,
        shoes |-> IF r.body.shoes_id = UNDEFINED THEN NULL ELSE r.body.shoes_id]

\* ------------------------------------------------------- step bookkeeping
\* A task ends: `bag` holds the requests still outstanding, the requests
\* among the task's effects join them.
Commit(op, arg, fx, bag) ==
  /\ BagCardinality(bag) + Len(RequestsOf(fx)) <= MaxInFlight
  /\ inflight' = bag (+) BagOfSeq(RequestsOf(fx))
  /\ lastStep' = Step(op, arg, fx)
  /\ UNCHANGED <<orphaned, viewVars, wardrobeVars>>

\* the bag once request r has settled
Settled(r) == inflight (-) SetToBag({r})

\* Request r is outstanding and the component that awaits it is mounted.
Awaited(r) == CopiesIn(r, inflight) > CopiesIn(r, orphaned)

Tabs == {"wardrobe", "outfits", "stats"}

\* The kinds of request and of await whose continuation sets state of the
\* tab's component: once the component has unmounted, these setters change
\* nothing. (loadStats, setLoadingState, setAutoGenerateItem and Alert belong
\* to App and go on working; the continuation of retrainModel calls nothing
\* else.)
OwnedBy(tab) ==
  CASE tab = "outfits" -> {"build", "random", "ratings", "items", "rate"}
    [] tab = "wardrobe" -> {"loadItems", "features", "delete", "add",
                            "permission", "picker", "image", "uploadTimer"}
    [] OTHER -> {}

\* those of the requests in `bag` that a component awaits
Owned(bag) ==
  [x \in {y \in BagToSet(bag) :
            y.kind \in OwnedBy("outfits") \cup OwnedBy("wardrobe")}
     |-> CopiesIn(x, bag)]

\* The outfit screen takes presses: the picker modal is not covering it and
\* the App's loading overlay is not shown.
OutfitsScreen ==
  /\ mounted
  /\ ~pickerModalVisible
  /\ ~loadingState.isLoading

\* ------------------------------------------------------------------- Init
\* OutfitsTab has just rendered for the first time: the loadStats() of App's
\* own mount has been answered, and the wardrobe tab may have left an anchor
\* item in App (createOutfitWithItem).
AnchorItems ==
  {[type |-> Catalog[i].item_type, id |-> Catalog[i].clothing_id] :
     i \in 1..Len(Catalog)}

\* the useState initial values of WardrobeTab
WardrobeInitialState ==
  /\ wardrobeMounted = FALSE
  /\ category = "all"
  /\ wardrobeItems = <<>>
  /\ wardrobeLoading = FALSE
  /\ selectedItem = Nil
  /\ itemModalVisible = FALSE
  /\ itemFeatures = Nil
  /\ addModalVisible = FALSE
  /\ uploadCategory = "shirt"
  /\ confirmDialog = Nil
  /\ waits = EmptyBag

\* WardrobeTab is not rendered: its state has its initial values.
WardrobeUnmounted ==
  /\ platform = "web"
  /\ serverItems = Catalog
  /\ WardrobeInitialState

\* OutfitsTab is not rendered: its state has its initial values.
OutfitsUnmounted ==
  /\ mounted = FALSE
  /\ autoGenerateItem = Nil
  /\ currentOutfit = Nil
  /\ loading = FALSE
  /\ lastRating = NoRating
  /\ recentRatings = <<>>
  /\ pickerModalVisible = FALSE
  /\ pickerItems = <<>>
  /\ currentPickerSlot = NULL
  /\ selectedItems = EmptySlots
  /\ timers = 0
  /\ rateRequests = 0

Init ==
  /\ variant \in Variants
  /\ mounted = FALSE
  /\ stats \in ServerStats
  /\ autoGenerateItem \in {Nil} \cup AnchorItems
  /\ loadingState = NotLoading
  /\ currentOutfit = Nil
  /\ loading = FALSE
  /\ lastRating = NoRating
  /\ recentRatings = <<>>
  /\ pickerModalVisible = FALSE
  /\ pickerItems = <<>>
  /\ currentPickerSlot = NULL
  /\ selectedItems = EmptySlots
  /\ inflight = EmptyBag
  /\ orphaned = EmptyBag
  /\ timers = 0
  /\ rateRequests = 0
  /\ lastStep = Step("render", Nil, <<>>)
  /\ currentTab = "outfits"
  /\ statsView = Nil
  /\ WardrobeUnmounted

\* ------------------------------------------------------------ mount effects
\* { shirt: null, pants: null, shoes: null, [itemType]: autoGenerateItem.id }
AnchorSlots(anchor) == [EmptySlots EXCEPT ![anchor.type] = anchor.id]

\* the anchor effect of part_005: the slot is set, nothing is requested
AnchorEffect_part005(anchor) == <<>>

\* the anchor effect of OutfitsTab.tsx: generateOutfitFromBuilder({[type]: id})
AnchorEffect_OutfitsTab(anchor) ==
  << Request(BuildCall([r \in {anchor.type} |-> anchor.id])) >>

\* What the two useEffect callbacks of OutfitsTab's first render do, in
\* declaration order: loadRecentRatings(), then the anchor effect.
OutfitsMountEffects(anchor) ==
  <<Request(RatingsCall)>> \o
  (IF anchor = Nil THEN <<>>
   ELSE IF variant = "part_005" THEN AnchorEffect_part005(anchor)
   ELSE AnchorEffect_OutfitsTab(anchor))

\* The two useEffect callbacks of the first render, in declaration order.
MountEffects ==
  /\ currentTab = "outfits"
  /\ ~mounted
  /\ mounted' = TRUE
  /\ LET anchor == autoGenerateItem
         generates == anchor # Nil /\ variant = "OutfitsTab"
         fx == OutfitsMountEffects(anchor)
     IN /\ selectedItems' = IF anchor = Nil THEN selectedItems
                            ELSE AnchorSlots(anchor)
        /\ loading' = generates
        /\ lastRating' = NoRating
        /\ autoGenerateItem' = Nil
        /\ Commit("mount", Nil, fx, inflight)
  /\ UNCHANGED <<variant, stats, loadingState, currentOutfit, recentRatings,
                 pickerModalVisible, pickerItems, currentPickerSlot,
                 timers, rateRequests>>

\* ---------------------------------------------------------------- resolver
\* The fill-empty-slots button: generateOutfitFromBuilder() up to its await.
GenerateOutfitFromBuilder ==
  /\ OutfitsScreen
  /\ ~loading
  /\ loading' = TRUE
  /\ lastRating' = NoRating
  /\ Commit("generateOutfitFromBuilder", Nil,
            <<Request(BuildCall(selectedItems))>>, inflight)
  /\ UNCHANGED <<appVars, currentOutfit, recentRatings, pickerModalVisible,
                 pickerItems, currentPickerSlot, selectedItems,
                 timers, rateRequests>>

\* The random button of OutfitsTab.tsx: generateRandomOutfit up to its await.
GenerateRandomOutfit ==
  /\ variant = "OutfitsTab"
  /\ OutfitsScreen
  /\ ~loading
  /\ loading' = TRUE
  /\ lastRating' = NoRating
  /\ Commit("generateRandomOutfit", Nil,
            <<Request(RandomCall(selectedItems))>>, inflight)
  /\ UNCHANGED <<appVars, currentOutfit, recentRatings, pickerModalVisible,
                 pickerItems, currentPickerSlot, selectedItems,
                 timers, rateRequests>>

\* A different resolver, which C2 rules out: it keeps the slots the user had
\* filled and fills only the empty ones.
SlotsAfterResolveKeepingFilled(data, slots) ==
  [shirt |-> IF slots.shirt # NULL THEN slots.shirt ELSE data.shirt,
   pants |-> IF slots.pants # NULL THEN slots.pants ELSE data.pants,
   shoes |-> IF slots.shoes # NULL THEN slots.shoes ELSE data.shoes]

\* setSelectedItems({shirt: data.shirt, pants: data.pants, shoes: data.shoes})
SlotsAfterResolve(data, slots) == SlotsOf(data)

\* The resolver call resolved with `data`: the rest of the try block, then
\* setLoading(false).
ResolverSucceeds(r, data) ==
  /\ Awaited(r) /\ IsResolver(r)
  /\ currentOutfit' = data
  /\ selectedItems' = SlotsAfterResolve(data, selectedItems)
  /\ loading' = FALSE
  /\ rateRequests' = 0
  /\ Commit("resolver.ok", [req |-> r, data |-> data], <<>>, Settled(r))
  /\ UNCHANGED <<appVars, lastRating, recentRatings, pickerModalVisible,
                 pickerItems, currentPickerSlot, timers>>

ResolverAlert(r) ==
  IF r.kind = "build" THEN AlertFx("Error", "Failed to generate outfit")
  ELSE AlertFx("Error", "No outfit could be generated")

\* The resolver call rejected: the catch block, then setLoading(false).
ResolverFails(r) ==
  /\ Awaited(r) /\ IsResolver(r)
  /\ loading' = FALSE
  /\ Commit("resolver.failed", [req |-> r], <<ResolverAlert(r)>>, Settled(r))
  /\ UNCHANGED <<appVars, currentOutfit, lastRating, recentRatings,
                 pickerModalVisible, pickerItems, currentPickerSlot,
                 selectedItems, timers, rateRequests>>

\* ------------------------------------------------------------------ picker
\* An empty slot's add button: openItemPicker, with loadPickerItems up to its
\* await.
OpenItemPicker(slot) ==
  /\ OutfitsScreen
  /\ selectedItems[slot] = NULL
  /\ currentPickerSlot' = slot
  /\ pickerModalVisible' = TRUE
  /\ Commit("openItemPicker", [slot |-> slot],
            <<Request(ItemsCall(slot))>>, inflight)
  /\ UNCHANGED <<appVars, currentOutfit, loading, lastRating, recentRatings,
                 pickerItems, selectedItems, timers, rateRequests>>

\* getWardrobeItems resolved: setPickerItems(data)
PickerItemsArrive(r) ==
  /\ Awaited(r) /\ r.kind = "items"
  /\ pickerItems' = FilterType(Catalog, r.item_type)
  /\ Commit("loadPickerItems.ok", [req |-> r], <<>>, Settled(r))
  /\ UNCHANGED <<appVars, currentOutfit, loading, lastRating, recentRatings,
                 pickerModalVisible, currentPickerSlot, selectedItems,
                 timers, rateRequests>>

\* getWardrobeItems rejected: the catch block of loadPickerItems
PickerItemsFail(r) ==
  /\ Awaited(r) /\ r.kind = "items"
  /\ Commit("loadPickerItems.failed", [req |-> r],
            <<AlertFx("Error", "Failed to load items")>>, Settled(r))
  /\ UNCHANGED <<appVars, tabVars, timers, rateRequests>>

\* A different update, which C11 rules out: the other slots are emptied.
NewSelectedItemsResetting(slots, slot, item) ==
  [EmptySlots EXCEPT ![slot] = item.clothing_id]

\* { ...selectedItems, [currentPickerSlot]: item.clothing_id }
NewSelectedItems(slots, slot, item) ==
  [slots EXCEPT ![slot] = item.clothing_id]

\* selectItemForSlot of part_005: the third filled slot starts a build call
\* (generateOutfitFromBuilder up to its await), fewer clear the outfit.
SelectItemForSlot_part005(item) ==
  LET new == NewSelectedItems(selectedItems, currentPickerSlot, item)
  IN /\ selectedItems' = new
     /\ IF AllFilled(new)
        THEN /\ loading' = TRUE
             /\ lastRating' = NoRating
             /\ UNCHANGED <<currentOutfit, rateRequests>>
             /\ Commit("selectItemForSlot", [slot |-> currentPickerSlot],
                       <<Request(BuildCall(new))>>, inflight)
        ELSE /\ currentOutfit' = Nil
             /\ rateRequests' = 0
             /\ lastRating' = NoRating
             /\ UNCHANGED loading
             /\ Commit("selectItemForSlot", [slot |-> currentPickerSlot],
                       <<>>, inflight)

\* selectItemForSlot of OutfitsTab.tsx: the outfit is cleared, nothing is
\* requested.
SelectItemForSlot_OutfitsTab(item) ==
  /\ selectedItems' = NewSelectedItems(selectedItems, currentPickerSlot, item)
  /\ currentOutfit' = Nil
  /\ rateRequests' = 0
  /\ lastRating' = NoRating
  /\ UNCHANGED loading
  /\ Commit("selectItemForSlot", [slot |-> currentPickerSlot], <<>>, inflight)

\* An item of the picker list is pressed.
SelectItemForSlot(item) ==
  /\ mounted
  /\ pickerModalVisible
  /\ item \in Elements(pickerItems)
  /\ currentPickerSlot # NULL
  /\ pickerModalVisible' = FALSE
  /\ currentPickerSlot' = NULL
  /\ IF variant = "part_005" THEN SelectItemForSlot_part005(item)
     ELSE SelectItemForSlot_OutfitsTab(item)
  /\ UNCHANGED <<appVars, recentRatings, pickerItems, timers>>

\* The picker's cancel button (onClose).
ClosePicker ==
  /\ mounted
  /\ pickerModalVisible
  /\ pickerModalVisible' = FALSE
  /\ currentPickerSlot' = NULL
  /\ Commit("onClose", Nil, <<>>, inflight)
  /\ UNCHANGED <<appVars, currentOutfit, loading, lastRating, recentRatings,
                 pickerItems, selectedItems, timers, rateRequests>>

\* the slots, the outfit and the rating held by OutfitsTab
BuilderState ==
  [selectedItems |-> selectedItems, currentOutfit |-> currentOutfit,
   lastRating |-> lastRating]

\* A different clear, which C12 rules out: pressed on an empty slot it empties
\* the other slots.
ClearItemOrAll(st, slot) ==
  [selectedItems |-> IF st.selectedItems[slot] # NULL
                     THEN [st.selectedItems EXCEPT ![slot] = NULL]
                     ELSE EmptySlots,
   currentOutfit |-> Nil, lastRating |-> NoRating]

\* clearItemSlot(slot) applied to the state st
ClearItem(st, slot) ==
  [selectedItems |-> [st.selectedItems EXCEPT ![slot] = NULL],
   currentOutfit |-> Nil, lastRating |-> NoRating]

\* A filled slot's remove button.
ClearItemSlot(slot) ==
  /\ OutfitsScreen
  /\ selectedItems[slot] # NULL
  /\ selectedItems' = ClearItem(BuilderState, slot).selectedItems
  /\ currentOutfit' = ClearItem(BuilderState, slot).currentOutfit
  /\ rateRequests' = 0
  /\ lastRating' = ClearItem(BuilderState, slot).lastRating
  /\ Commit("clearItemSlot", [slot |-> slot], <<>>, inflight)
  /\ UNCHANGED <<appVars, loading, recentRatings, pickerModalVisible,
                 pickerItems, currentPickerSlot, timers>>

\* ---------------------------------------------------------- recent ratings
\* getRatings resolved with the history after n ratings
RecentRatingsArrive(r, n) ==
  /\ Awaited(r) /\ r.kind = "ratings"
  /\ recentRatings' = SliceRecent(History(n))
  /\ Commit("loadRecentRatings.ok", [n |-> n], <<>>, Settled(r))
  /\ UNCHANGED <<appVars, currentOutfit, loading, lastRating,
                 pickerModalVisible, pickerItems, currentPickerSlot,
                 selectedItems, timers, rateRequests>>

\* getRatings rejected: the catch block logs
RecentRatingsFail(r) ==
  /\ Awaited(r) /\ r.kind = "ratings"
  /\ Commit("loadRecentRatings.failed", Nil, <<>>, Settled(r))
  /\ UNCHANGED <<appVars, tabVars, timers, rateRequests>>

\* `user_rating_${rating.rating}`
UserRatingTag(n) ==
  CASE n = 1 -> "user_rating_1"
    [] n = 2 -> "user_rating_2"
    [] n = 3 -> "user_rating_3"
    [] n = 4 -> "user_rating_4"
    [] n = 5 -> "user_rating_5"

\* A different literal, which C22 rules out: the score is the star value
\* itself and the source is the resolver's.
RecentOutfitUnscaled(rating) ==
  [shirt |-> rating.shirt_id, pants |-> rating.pants_id,
   shoes |-> rating.shoes_id, score |-> <<rating.rating, 1>>,
   score_source |-> "new_ml"]

\* the Outfit literal of handleRecentOutfitPress; score is rating / 5
RecentOutfit(rating) ==
  [shirt |-> rating.shirt_id, pants |-> rating.pants_id,
   shoes |-> rating.shoes_id, score |-> <<rating.rating, 5>>,
   score_source |-> UserRatingTag(rating.rating)]

\* the cards RecentOutfits renders: ratings.slice(0, 10)
RecentCards ==
  Elements(SubSeq(recentRatings, 1,
                  IF Len(recentRatings) < 10 THEN Len(recentRatings) ELSE 10))

\* A recent-outfit card is pressed.
HandleRecentOutfitPress(rating) ==
  /\ OutfitsScreen
  /\ rating \in RecentCards
  /\ currentOutfit' = RecentOutfit(rating)
  /\ selectedItems' = [shirt |-> rating.shirt_id, pants |-> rating.pants_id,
                       shoes |-> rating.shoes_id]
  /\ lastRating' = rating.rating
  /\ rateRequests' = 0
  /\ Commit("handleRecentOutfitPress", [id |-> rating.id], <<>>, inflight)
  /\ UNCHANGED <<appVars, loading, recentRatings, pickerModalVisible,
                 pickerItems, currentPickerSlot, timers>>

\* ------------------------------------------------------------------ rating
\* the stars are rendered and take presses
StarsEnabled ==
  /\ OutfitsScreen
  /\ ~loading
  /\ currentOutfit # Nil
  /\ lastRating = NoRating

\* A star is pressed: handleRateOutfit up to its await.
HandleRateOutfit(rating) ==
  /\ StarsEnabled
  /\ rateRequests' = IF rateRequests < MaxRateCount THEN rateRequests + 1
                     ELSE rateRequests
  /\ Commit("handleRateOutfit", [rating |-> rating],
            <<Request(RateCall(currentOutfit, rating))>>, inflight)
  /\ UNCHANGED <<appVars, tabVars, timers>>

\* handleRateOutfit called while no outfit is held (the stars are not
\* rendered then): `if (!currentOutfit) return`
HandleRateOutfitWithoutOutfit(rating) ==
  /\ mounted
  /\ currentOutfit = Nil
  /\ Commit("handleRateOutfit", [rating |-> rating], <<>>, inflight)
  /\ UNCHANGED <<appVars, tabVars, timers, rateRequests>>

SetLastRatingFx == [e |-> "setLastRating"]

\* Alert.alert('Rating saved!',
\*             `Training new model with ${result.rating_count} ratings...`)
TrainingAlert(result) ==
  AlertFx("Rating saved!",
          "Training new model with " \o ToString(result.rating_count)
            \o " ratings...")

\* A different continuation, which C6 rules out: it retrains whatever the
\* response says.
RateSuccessEffectsAlwaysRetrain(r, result) ==
  << SetLastRatingFx, SetTimeoutFx,
     Request(StatsCall("none")), Request(RatingsCall),
     TrainingAlert(result),
     SetLoadingStateFx(TRUE), Request(RetrainCall) >>

\* A different continuation, which C15 rules out: it retrains before it
\* refetches.
RateSuccessEffectsRetrainFirst(r, result) ==
  << SetLastRatingFx, SetTimeoutFx >> \o
  (IF result.should_retrain
   THEN << TrainingAlert(result),
           SetLoadingStateFx(TRUE), Request(RetrainCall) >>
   ELSE <<>>) \o
  << Request(StatsCall("none")), Request(RatingsCall) >>

\* What handleRateOutfit does, in order, once rateOutfit has resolved with
\* `result`, up to its next await.
RateSuccessEffects(r, result) ==
  << SetLastRatingFx, SetTimeoutFx,
     Request(StatsCall("none")), Request(RatingsCall) >> \o
  (IF result.should_retrain
   THEN << TrainingAlert(result),
           SetLoadingStateFx(TRUE), Request(RetrainCall) >>
   ELSE <<>>)

\* rateOutfit resolved
RateSucceeds(r, result) ==
  /\ Awaited(r) /\ r.kind = "rate"
  /\ timers < MaxTimers
  /\ lastRating' = r.body.rating
  /\ timers' = timers + 1
  /\ loadingState' = IF result.should_retrain THEN Training ELSE loadingState
  /\ Commit("handleRateOutfit.ok", result, RateSuccessEffects(r, result),
            Settled(r))
  /\ UNCHANGED <<variant, mounted, stats, autoGenerateItem, currentOutfit,
                 loading, recentRatings, pickerModalVisible, pickerItems,
                 currentPickerSlot, selectedItems, rateRequests>>

\* A different catch block, which C14 rules out: it refetches the stats.
RateFailureEffectsRefetching ==
  << AlertFx("Error", "Failed to save rating"), Request(StatsCall("none")) >>

\* What the outer catch block of handleRateOutfit does.
RateFailureEffects == << AlertFx("Error", "Failed to save rating") >>

\* rateOutfit rejected: the outer catch block
RateFails(r) ==
  /\ Awaited(r) /\ r.kind = "rate"
  /\ Commit("handleRateOutfit.failed", Nil, RateFailureEffects, Settled(r))
  /\ UNCHANGED <<appVars, tabVars, timers, rateRequests>>

\* retrainModel resolved: handleRateOutfit goes on to `await loadStats()`
RetrainSucceeds(r) ==
  /\ Awaited(r) /\ r.kind = "retrain"
  /\ Commit("retrainModel.ok", Nil,
            <<Request(StatsCall("clearLoading"))>>, Settled(r))
  /\ UNCHANGED <<appVars, tabVars, timers, rateRequests>>

\* A different failure path, which C18 rules out: the retrain error reaches
\* the outer catch block.
RetrainFailureEffectsAlerting ==
  << SetLoadingStateFx(FALSE), AlertFx("Error", "Failed to save rating") >>

\* What handleRateOutfit does once retrainModel has rejected: the inner catch
\* logs, the finally block clears the overlay.
RetrainFailureEffects == << SetLoadingStateFx(FALSE) >>

\* retrainModel rejected
RetrainFails(r) ==
  /\ Awaited(r) /\ r.kind = "retrain"
  /\ loadingState' = IF SetLoadingStateFx(FALSE) \in Elements(RetrainFailureEffects)
                     THEN NotLoading ELSE loadingState
  /\ Commit("retrainModel.failed", Nil, RetrainFailureEffects, Settled(r))
  /\ UNCHANGED <<variant, mounted, stats, autoGenerateItem, tabVars, timers,
                 rateRequests>>

\* What runs once a loadStats() call has settled: nothing for a call nobody
\* awaits, the finally block of handleRateOutfit for the awaited one.
AfterLoadStats(r) ==
  IF r.andThen = "clearLoading" THEN <<SetLoadingStateFx(FALSE)>>
  ELSE IF r.andThen = "deleteDone"
       THEN <<SetLoadingStateFx(FALSE),
              AlertFx("Success", "Item deleted successfully")>>
  ELSE <<>>

\* ---------------------------------------------------------------- StatsTab
\* NaN, which `5 - (undefined % 5)` is; no count of the model is negative
NaN == -1

\* `stats?.wardrobe_items?.[role] || 0` with a count that is missing read as 1,
\* which C25 rules out.
CountOrOne(st, role) ==
  IF st = Nil THEN 1
  ELSE IF "wardrobe_items" \notin DOMAIN st THEN 1
  ELSE IF role \notin DOMAIN st.wardrobe_items THEN 1
  ELSE st.wardrobe_items[role]

\* `stats?.wardrobe_items?.[role] || 0`
CountOrZero(st, role) ==
  IF st = Nil THEN 0
  ELSE IF "wardrobe_items" \notin DOMAIN st THEN 0
  ELSE IF role \notin DOMAIN st.wardrobe_items THEN 0
  ELSE st.wardrobe_items[role]

\* shirtCount * pantsCount * shoesCount
TotalCombinations(st) ==
  CountOrZero(st, "shirt") * CountOrZero(st, "pants") * CountOrZero(st, "shoes")

\* A different countdown, which C26 rules out: it shows 0 at a multiple of 5.
RatingsUntilNextUpdateFromZero(st) ==
  IF st = Nil THEN 5
  ELSE IF "total_ratings" \notin DOMAIN st THEN NaN
  ELSE (5 - (st.total_ratings % 5)) % 5

\* stats ? 5 - (stats.total_ratings % 5) : 5
RatingsUntilNextUpdate(st) ==
  IF st = Nil THEN 5
  ELSE IF "total_ratings" \notin DOMAIN st THEN NaN
  ELSE 5 - (st.total_ratings % 5)

\* What StatsTab renders for the stats App holds.
StatsTabView(st) ==
  [totalCombinations |-> TotalCombinations(st),
   ratingsUntilNextUpdate |-> RatingsUntilNextUpdate(st)]

\* App.loadStats: the fetch resolved with a body that is JSON, whatever the
\* status of the response: setStats(data).  App renders again, and StatsTab
\* with it when it is the tab shown.
StatsArrive(r, data) ==
  /\ Awaited(r) /\ r.kind = "stats"
  /\ stats' = data
  /\ statsView' = IF currentTab = "stats" THEN StatsTabView(data)
                  ELSE statsView
  /\ loadingState' = IF SetLoadingStateFx(FALSE) \in Elements(AfterLoadStats(r))
                     THEN NotLoading ELSE loadingState
  /\ inflight' = Settled(r)
  /\ lastStep' = Step("loadStats.ok", [req |-> r], AfterLoadStats(r))
  /\ UNCHANGED <<variant, mounted, autoGenerateItem, tabVars, timers,
                 rateRequests, orphaned, currentTab, wardrobeVars>>

\* App.loadStats: the fetch rejected or the body is not JSON, the catch block
\* logs
StatsFail(r) ==
  /\ Awaited(r) /\ r.kind = "stats"
  /\ loadingState' = IF SetLoadingStateFx(FALSE) \in Elements(AfterLoadStats(r))
                     THEN NotLoading ELSE loadingState
  /\ Commit("loadStats.failed", [req |-> r], AfterLoadStats(r), Settled(r))
  /\ UNCHANGED <<variant, mounted, stats, autoGenerateItem, tabVars, timers,
                 rateRequests>>

\* The 1500 ms timer of handleRateOutfit fires.
\* A different callback, which C19 rules out: it leaves the slots alone.
SlotsAfterResetKeeping(slots) == slots

\* setSelectedItems({shirt: null, pants: null, shoes: null}) of the callback
SlotsAfterReset(slots) == EmptySlots

\* the callback handleRateOutfit scheduled with setTimeout runs
ResetTimerFires ==
  /\ timers > 0
  /\ timers' = timers - 1
  /\ selectedItems' = SlotsAfterReset(selectedItems)
  /\ currentOutfit' = Nil
  /\ lastRating' = NoRating
  /\ rateRequests' = 0
  /\ Commit("resetTimer", Nil, <<>>, inflight)
  /\ UNCHANGED <<appVars, loading, recentRatings, pickerModalVisible,
                 pickerItems, currentPickerSlot>>

\* what POST /outfits/rate may answer with
RatingCounts == {6, 10}
RateResults ==
  { [should_retrain |-> b, rating_count |-> n] :
      b \in BOOLEAN, n \in RatingCounts }

\* ------------------------------------------------------------- WardrobeTab
\* category === 'all' ? undefined : category
ItemTypeOf(cat) == IF cat = "all" THEN UNDEFINED ELSE cat

\* The getWardrobeItems call of loadItems; the closure that issued it holds
\* `cat`, and `andThen` names the caller awaiting loadItems().
LoadItemsCall(cat, andThen) ==
  [kind |-> "loadItems", category |-> cat, item_type |-> ItemTypeOf(cat),
   andThen |-> andThen]
FeaturesCall(id) == [kind |-> "features", clothing_id |-> id]
\* The deleteWardrobeItem call of performDelete; the closure that issued it
\* holds `cat` as category.
DeleteCall(id, cat) ==
  [kind |-> "delete", clothing_id |-> id, category |-> cat]
\* The POST of addWardrobeItem(uploadCategory, imageUri); the closure of
\* uploadImage that issued it holds `cat` as category.
AddCall(itemType, cat) ==
  [kind |-> "add", item_type |-> itemType, category |-> cat]

\* What pickImage(source) and the uploadImage it calls await besides the
\* server; the closure holds `itemType` as uploadCategory and `cat` as
\* category. The permission answer (after the import of expo-image-picker):
PermissionWait(source, itemType, cat) ==
  [kind |-> "permission", source |-> source, item_type |-> itemType,
   category |-> cat]
\* launchCameraAsync / launchImageLibraryAsync
PickerWait(source, itemType, cat) ==
  [kind |-> "picker", source |-> source, item_type |-> itemType,
   category |-> cat]
\* fetch(imageUri) and blob() of addWardrobeItem
ImageWait(itemType, cat) ==
  [kind |-> "image", item_type |-> itemType, category |-> cat]
\* the 2000 ms timer of uploadImage
TimerWait(cat) == [kind |-> "uploadTimer", category |-> cat]

\* The await w is pending, for the mounted component (live) or for one that
\* has unmounted.
Pending(w, live) ==
  IF live THEN CopiesIn(w, waits) > CopiesIn(w, orphaned)
  ELSE BagIn(w, waits) /\ BagIn(w, orphaned)

CloseItemModalFx == [e |-> "closeItemModal"]

Deleting == [isLoading |-> TRUE, message |-> "Deleting item..."]
Uploading == [isLoading |-> TRUE, message |-> "Uploading..."]
Processing == [isLoading |-> TRUE, message |-> "Processing..."]

\* the server's answer to GET /wardrobe/items, with or without item_type
ServerList(itemType) ==
  IF itemType = UNDEFINED THEN serverItems
  ELSE FilterType(serverItems, itemType)

\* the item POST /wardrobe/items stores
NewItem(itemType) ==
  [clothing_id |-> CASE itemType = "shirt" -> "S9"
                     [] itemType = "pants" -> "P9"
                     [] itemType = "shoes" -> "H9",
   item_type |-> itemType]

\* the server's answer to GET /wardrobe/stats
StatsOf(list) ==
  [total_ratings |-> 5,
   wardrobe_items |-> [r \in Roles |-> Len(FilterType(list, r))]]

\* How a request of api.ts may fail: the fetch rejects, or the response is
\* not ok and its body is JSON with or without `detail`, other text, or empty.
Failures ==
  { [rejected |-> TRUE, status |-> 0, json |-> FALSE, detail |-> NULL,
     text |-> ""] } \cup
  { [rejected |-> FALSE, status |-> 404, json |-> TRUE, detail |-> d,
     text |-> "{}"] : d \in {"Item not found", NULL} } \cup
  { [rejected |-> FALSE, status |-> 500, json |-> FALSE, detail |-> NULL,
     text |-> t] : t \in {"Internal Server Error", ""} }

\* the message of the Error the call rejects with: fetch's TypeError, or the
\* ApiError of handleResponse
ErrorMessage(failure) ==
  LET errorMessage == "Request failed with status " \o ToString(failure.status)
  IN  IF failure.rejected THEN "Network request failed"
      ELSE IF failure.json
           THEN (IF failure.detail # NULL THEN failure.detail ELSE errorMessage)
           ELSE (IF failure.text # "" THEN failure.text ELSE errorMessage)

\* [shuffled[i], shuffled[j]] = [shuffled[j], shuffled[i]]
Swap(a, i, j) == [a EXCEPT ![i] = a[j], ![j] = a[i]]

\* The loop of shuffleArray from position i down to the second position,
\* Math.random() picking any j at or below i: every array it can leave.
RECURSIVE ShufflePass(_, _)
ShufflePass(shuffled, i) ==
  IF i <= 1 THEN {shuffled}
  ELSE UNION { ShufflePass(Swap(shuffled, i, j), i - 1) : j \in 1..i }

\* A different shuffle, which C27 rules out: it draws every position anew, so
\* an item may show twice, and it works on the array it was given.
ShuffleArrayDrawing(array) ==
  { [array |-> s, shuffled |-> s] :
      s \in [1..Len(array) -> Elements(array)] }

\* shuffleArray: the array it was given, as the call leaves it, and the
\* array it returns; `[...array]` copies before the loop.
ShuffleArray(array) ==
  { [array |-> array, shuffled |-> s] : s \in ShufflePass(array, Len(array)) }

\* A different store, which C28 rules out: a filtered list is shuffled too.
AfterFetchShufflingAll(cat, data) ==
  { [data |-> run.array, shown |-> run.shuffled] : run \in ShuffleArray(data) }

\* What loadItems leaves for the response `data`: `data` itself once the
\* store is done, and the list it stores, which is a shuffle of the response
\* when the closure's category is 'all' and the response itself otherwise.
AfterFetch(cat, data) ==
  IF cat = "all"
  THEN { [data |-> run.array, shown |-> run.shuffled] :
           run \in ShuffleArray(data) }
  ELSE { [data |-> data, shown |-> data] }

\* The wardrobe grid takes presses: no modal, dialog or overlay covers it.
WardrobeScreen ==
  /\ currentTab = "wardrobe"
  /\ wardrobeMounted
  /\ ~itemModalVisible
  /\ ~addModalVisible
  /\ confirmDialog = Nil
  /\ ~loadingState.isLoading

\* A task of WardrobeTab ends.
CommitWardrobe(op, arg, fx, bag) ==
  /\ BagCardinality(bag) + Len(RequestsOf(fx)) <= MaxPending
  /\ inflight' = bag (+) BagOfSeq(RequestsOf(fx))
  /\ lastStep' = Step(op, arg, fx)
  /\ UNCHANGED <<variant, mounted, autoGenerateItem, tabVars, timers,
                 rateRequests, orphaned, viewVars, platform>>

\* App has rendered for the first time: the wardrobe tab is shown and no
\* effect has run yet.
AppStarts ==
  /\ OutfitsUnmounted
  /\ WardrobeInitialState
  /\ serverItems = Wardrobe
  /\ currentTab = "wardrobe"
  /\ stats = Nil
  /\ loadingState = NotLoading
  /\ statsView = Nil
  /\ inflight = EmptyBag
  /\ orphaned = EmptyBag
  /\ lastStep = Step("render", Nil, <<>>)

\* App starts on the wardrobe tab, on either platform; the wardrobe tab is
\* the same in both builds of the app.
InitWardrobe ==
  /\ variant = "OutfitsTab"
  /\ platform \in Platforms
  /\ AppStarts

\* App starts, in either build.
InitTabs ==
  /\ variant \in Variants
  /\ platform = "web"
  /\ AppStarts

\* App shows one of the two tabs.
InitApp == Init \/ InitWardrobe

\* The effects of App's first render: WardrobeTab's loadItems(), then App's
\* own loadStats(), which runs this once only.
WardrobeMount ==
  /\ currentTab = "wardrobe"
  /\ ~wardrobeMounted
  /\ wardrobeMounted' = TRUE
  /\ wardrobeLoading' = TRUE
  /\ CommitWardrobe("wardrobeMount", Nil,
                    <<Request(LoadItemsCall(category, "none")),
                      Request(StatsCall("none"))>>, inflight)
  /\ UNCHANGED <<stats, loadingState, serverItems, category, wardrobeItems,
                 selectedItem, itemModalVisible, itemFeatures,
                 addModalVisible, uploadCategory, confirmDialog, waits>>

\* CategoryFilter: setCategory(c), and the two effects on [category].
SetCategory(c) ==
  /\ WardrobeScreen
  /\ c # category
  /\ category' = c
  /\ uploadCategory' = IF c # "all" THEN c ELSE uploadCategory
  /\ wardrobeLoading' = TRUE
  /\ CommitWardrobe("setCategory", [category |-> c],
                    <<Request(LoadItemsCall(c, "none"))>>, inflight)
  /\ UNCHANGED <<stats, loadingState, serverItems, wardrobeMounted,
                 wardrobeItems, selectedItem, itemModalVisible, itemFeatures,
                 addModalVisible, confirmDialog, waits>>

\* A different continuation, which C24 rules out: the caller does not
\* refetch the stats.
AfterLoadItemsWithoutStats(r) == <<>>

\* What the caller awaiting loadItems() does once it has returned:
\* performDelete and the upload callback call loadStats().
AfterLoadItems(r) ==
  IF r.andThen = "delete" THEN <<Request(StatsCall("deleteDone"))>>
  ELSE IF r.andThen = "upload" THEN <<Request(StatsCall("clearLoading"))>>
  ELSE <<>>

\* getWardrobeItems resolved
ItemsArrive(r) ==
  /\ Awaited(r) /\ r.kind = "loadItems"
  /\ \E after \in AfterFetch(r.category, ServerList(r.item_type)) :
       /\ wardrobeItems' = after.shown
       /\ CommitWardrobe("loadItems.ok",
                         [req |-> r, response |-> ServerList(r.item_type),
                          data |-> after.data],
                         AfterLoadItems(r), Settled(r))
  /\ wardrobeLoading' = FALSE
  /\ UNCHANGED <<stats, loadingState, serverItems, wardrobeMounted, category,
                 selectedItem, itemModalVisible, itemFeatures,
                 addModalVisible, uploadCategory, confirmDialog, waits>>

\* getWardrobeItems rejected: the catch block alerts, loadItems returns
ItemsFail(r) ==
  /\ Awaited(r) /\ r.kind = "loadItems"
  /\ wardrobeLoading' = FALSE
  /\ CommitWardrobe("loadItems.failed", [req |-> r],
                    <<AlertFx("Error", "Failed to load wardrobe items")>>
                      \o AfterLoadItems(r), Settled(r))
  /\ UNCHANGED <<stats, loadingState, serverItems, wardrobeMounted, category,
                 wardrobeItems, selectedItem, itemModalVisible, itemFeatures,
                 addModalVisible, uploadCategory, confirmDialog, waits>>

\* An item of the grid is pressed: openItemModal up to its await.
OpenItemModal(item) ==
  /\ WardrobeScreen
  /\ ~wardrobeLoading
  /\ item \in Elements(wardrobeItems)
  /\ selectedItem' = item
  /\ itemModalVisible' = TRUE
  /\ CommitWardrobe("openItemModal", [item |-> item],
                    <<Request(FeaturesCall(item.clothing_id))>>, inflight)
  /\ UNCHANGED <<stats, loadingState, serverItems, wardrobeMounted, category,
                 wardrobeItems, wardrobeLoading, itemFeatures,
                 addModalVisible, uploadCategory, confirmDialog, waits>>

\* getItemFeatures resolved
FeaturesArrive(r) ==
  /\ Awaited(r) /\ r.kind = "features"
  /\ itemFeatures' = [clothing_id |-> r.clothing_id]
  /\ CommitWardrobe("getItemFeatures.ok", [req |-> r], <<>>, Settled(r))
  /\ UNCHANGED <<stats, loadingState, serverItems, wardrobeMounted, category,
                 wardrobeItems, wardrobeLoading, selectedItem,
                 itemModalVisible, addModalVisible, uploadCategory,
                 confirmDialog, waits>>

\* A different catch block, which C31 rules out: the failure is reported.
FeaturesFailureEffectsAlerting(failure) ==
  << AlertFx("Error", ErrorMessage(failure)) >>

\* what the catch block of openItemModal shows the user: nothing
FeaturesFailureEffects(failure) == <<>>

\* getItemFeatures rejected, with a 404 or any other failure:
\* setItemFeatures(null)
FeaturesFail(r, failure) ==
  /\ Awaited(r) /\ r.kind = "features"
  /\ itemFeatures' = Nil
  /\ CommitWardrobe("getItemFeatures.failed",
                    [req |-> r, failure |-> failure],
                    FeaturesFailureEffects(failure), Settled(r))
  /\ UNCHANGED <<stats, loadingState, serverItems, wardrobeMounted, category,
                 wardrobeItems, wardrobeLoading, selectedItem,
                 itemModalVisible, addModalVisible, uploadCategory,
                 confirmDialog, waits>>

\* The detail view takes presses: it is a Modal, above the loading overlay.
ItemModalOpen ==
  /\ currentTab = "wardrobe"
  /\ itemModalVisible
  /\ confirmDialog = Nil

\* onClose of ItemDetailsModal
CloseItemModal ==
  /\ ItemModalOpen
  /\ itemModalVisible' = FALSE
  /\ selectedItem' = Nil
  /\ itemFeatures' = Nil
  /\ CommitWardrobe("closeItemModal", Nil, <<CloseItemModalFx>>, inflight)
  /\ UNCHANGED <<stats, loadingState, serverItems, wardrobeMounted, category,
                 wardrobeItems, wardrobeLoading, addModalVisible,
                 uploadCategory, confirmDialog, waits>>

\* A different performDelete, which C30 rules out: the request leaves before
\* the detail view is closed.
PerformDeleteEffectsRequestFirst(item, cat) ==
  << Request(DeleteCall(item.clothing_id, cat)), CloseItemModalFx,
     SetLoadingStateFx(TRUE) >>

\* performDelete up to its await
PerformDeleteEffects(item, cat) ==
  << CloseItemModalFx, SetLoadingStateFx(TRUE),
     Request(DeleteCall(item.clothing_id, cat)) >>

\* performDelete, run by the closure that holds `item` as selectedItem
PerformDelete(op, arg, item) ==
  /\ itemModalVisible' = FALSE
  /\ selectedItem' = Nil
  /\ itemFeatures' = Nil
  /\ loadingState' = Deleting
  /\ CommitWardrobe(op, arg, PerformDeleteEffects(item, category), inflight)
  /\ UNCHANGED <<stats, serverItems, wardrobeMounted, category,
                 wardrobeItems, wardrobeLoading, addModalVisible,
                 uploadCategory, waits>>

\* the catalogue items the server no longer holds
DeletedCount ==
  Cardinality({i \in 1..Len(Wardrobe) :
                 Wardrobe[i] \notin Elements(serverItems)})

\* the items the server holds that were uploaded
UploadedCount ==
  Cardinality({i \in 1..Len(serverItems) :
                 serverItems[i] \notin Elements(Wardrobe)})

\* A different deleteItem, which C29 rules out: the answer is not looked at.
DeleteConfirmedWhateverAnswer(confirmed) == TRUE

\* `if (!confirmed) return` of deleteItem
DeleteConfirmed(confirmed) == confirmed

\* The delete button of the detail view where window.confirm exists: the
\* dialog blocks the task until it is answered.
DeleteItemWeb(confirmed) ==
  /\ platform = "web"
  /\ ItemModalOpen
  /\ selectedItem # Nil
  /\ DeletedCount + UploadedCount < MaxChanges
  /\ confirmDialog' = Nil
  /\ IF DeleteConfirmed(confirmed)
     THEN PerformDelete("deleteItem", [confirmed |-> confirmed,
                                       item |-> selectedItem], selectedItem)
     ELSE /\ CommitWardrobe("deleteItem", [confirmed |-> confirmed,
                                           item |-> selectedItem],
                            <<>>, inflight)
          /\ UNCHANGED <<stats, loadingState, serverItems, wardrobeMounted,
                         category, wardrobeItems, wardrobeLoading,
                         selectedItem, itemModalVisible, itemFeatures,
                         addModalVisible, uploadCategory, waits>>

\* The delete button on a device: Alert.alert asks and deleteItem returns.
DeleteItemNative ==
  /\ platform = "native"
  /\ ItemModalOpen
  /\ selectedItem # Nil
  /\ DeletedCount + UploadedCount < MaxChanges
  /\ confirmDialog' = selectedItem
  /\ CommitWardrobe("deleteItem.ask", [item |-> selectedItem], <<>>, inflight)
  /\ UNCHANGED <<stats, loadingState, serverItems, wardrobeMounted, category,
                 wardrobeItems, wardrobeLoading, selectedItem,
                 itemModalVisible, itemFeatures, addModalVisible,
                 uploadCategory, waits>>

\* The Alert's Delete button: onPress runs performDelete.
ConfirmDelete ==
  /\ confirmDialog # Nil
  /\ confirmDialog' = Nil
  /\ PerformDelete("deleteItem.confirm", [item |-> confirmDialog],
                   confirmDialog)

\* The Alert's Cancel button.
CancelDelete ==
  /\ confirmDialog # Nil
  /\ confirmDialog' = Nil
  /\ CommitWardrobe("deleteItem.cancel", [item |-> confirmDialog], <<>>,
                    inflight)
  /\ UNCHANGED <<stats, loadingState, serverItems, wardrobeMounted, category,
                 wardrobeItems, wardrobeLoading, selectedItem,
                 itemModalVisible, itemFeatures, addModalVisible,
                 uploadCategory, waits>>

RECURSIVE WithoutItem(_, _)
WithoutItem(list, id) ==
  IF list = <<>> THEN <<>>
  ELSE IF Head(list).clothing_id = id THEN WithoutItem(Tail(list), id)
       ELSE <<Head(list)>> \o WithoutItem(Tail(list), id)

\* what the server holds once it has served request r
ServerAfter(r) ==
  IF r.kind = "delete" THEN WithoutItem(serverItems, r.clothing_id)
  ELSE IF r.kind = "add" THEN Append(serverItems, NewItem(r.item_type))
  ELSE serverItems

\* performDelete once deleteWardrobeItem has resolved, up to its next await:
\* loadItems() of its closure
DeleteSuccessEffects(r) == <<Request(LoadItemsCall(r.category, "delete"))>>

\* deleteWardrobeItem resolved: performDelete calls loadItems()
DeleteSucceeds(r) ==
  /\ Awaited(r) /\ r.kind = "delete"
  /\ serverItems' = ServerAfter(r)
  /\ wardrobeLoading' = TRUE
  /\ CommitWardrobe("deleteWardrobeItem.ok", [req |-> r],
                    DeleteSuccessEffects(r), Settled(r))
  /\ UNCHANGED <<stats, loadingState, wardrobeMounted, category,
                 wardrobeItems, selectedItem, itemModalVisible, itemFeatures,
                 addModalVisible, uploadCategory, confirmDialog, waits>>

\* the catch block of performDelete: error instanceof Error holds for both
\* kinds of rejection
DeleteFailureEffects(failure) ==
  << SetLoadingStateFx(FALSE), AlertFx("Error", ErrorMessage(failure)) >>

\* deleteWardrobeItem rejected
DeleteFails(r, failure) ==
  /\ Awaited(r) /\ r.kind = "delete"
  /\ loadingState' = NotLoading
  /\ CommitWardrobe("deleteWardrobeItem.failed",
                    [req |-> r, failure |-> failure],
                    DeleteFailureEffects(failure), Settled(r))
  /\ UNCHANGED <<stats, serverItems, wardrobeMounted, category,
                 wardrobeItems, wardrobeLoading, selectedItem,
                 itemModalVisible, itemFeatures, addModalVisible,
                 uploadCategory, confirmDialog, waits>>

\* The floating add button.
OpenAddModal ==
  /\ WardrobeScreen
  /\ addModalVisible' = TRUE
  /\ CommitWardrobe("openAddModal", Nil, <<>>, inflight)
  /\ UNCHANGED <<stats, loadingState, serverItems, wardrobeMounted, category,
                 wardrobeItems, wardrobeLoading, selectedItem,
                 itemModalVisible, itemFeatures, uploadCategory,
                 confirmDialog, waits>>

\* The add modal takes presses: it is a Modal, above the loading overlay.
AddModalOpen ==
  /\ currentTab = "wardrobe"
  /\ addModalVisible

\* onClose of AddItemModal
CloseAddModal ==
  /\ AddModalOpen
  /\ addModalVisible' = FALSE
  /\ CommitWardrobe("closeAddModal", Nil, <<>>, inflight)
  /\ UNCHANGED <<stats, loadingState, serverItems, wardrobeMounted, category,
                 wardrobeItems, wardrobeLoading, selectedItem,
                 itemModalVisible, itemFeatures, uploadCategory,
                 confirmDialog, waits>>

\* onCategoryChange of AddItemModal
SetUploadCategory(c) ==
  /\ AddModalOpen
  /\ c # uploadCategory
  /\ uploadCategory' = c
  /\ CommitWardrobe("setUploadCategory", [category |-> c], <<>>, inflight)
  /\ UNCHANGED <<stats, loadingState, serverItems, wardrobeMounted, category,
                 wardrobeItems, wardrobeLoading, selectedItem,
                 itemModalVisible, itemFeatures, addModalVisible,
                 confirmDialog, waits>>

\* A task of pickImage or uploadImage ends: the await w is over, the awaits
\* `next` begin. A task of a component that has unmounted leaves its awaits,
\* and its requests for that component, without a component from the start.
CommitWait(op, arg, fx, w, live, next) ==
  LET issued == BagOfSeq(RequestsOf(fx))
  IN  /\ BagCardinality(inflight) + Len(RequestsOf(fx))
           <= (IF live THEN MaxPending ELSE MaxInFlight)
      /\ inflight' = inflight (+) issued
      /\ waits' = (waits (-) SetToBag({w})) (+) BagOfSeq(next)
      /\ orphaned' = IF live THEN orphaned
                     ELSE (orphaned (-) SetToBag({w})) (+) Owned(issued)
                            (+) BagOfSeq(next)
      /\ lastStep' = Step(op, arg, fx)
      /\ UNCHANGED <<variant, mounted, autoGenerateItem, tabVars, timers,
                     rateRequests, viewVars, platform>>

\* 'Take photo' or 'Choose from gallery' of the add modal: pickImage(source)
\* up to its first await.
PickImage(source) ==
  /\ AddModalOpen
  /\ DeletedCount + UploadedCount < MaxChanges
  /\ BagCardinality(waits) < MaxWaits
  /\ waits' = waits (+)
                SetToBag({PermissionWait(source, uploadCategory, category)})
  /\ CommitWardrobe("pickImage", [source |-> source], <<>>, inflight)
  /\ UNCHANGED <<stats, loadingState, serverItems, wardrobeMounted, category,
                 wardrobeItems, wardrobeLoading, selectedItem,
                 itemModalVisible, itemFeatures, addModalVisible,
                 uploadCategory, confirmDialog>>

\* 'Camera permission is required' / 'Gallery permission is required'
PermissionText(source) ==
  IF source = "camera" THEN "Camera permission is required"
  ELSE "Gallery permission is required"

\* permission.granted is false: pickImage alerts and returns
PermissionDenied(w, live) ==
  /\ Pending(w, live) /\ w.kind = "permission"
  /\ CommitWait("pickImage.denied", [source |-> w.source],
                <<AlertFx("Permission needed", PermissionText(w.source))>>,
                w, live, <<>>)
  /\ UNCHANGED <<stats, loadingState, serverItems, wardrobeMounted, category,
                 wardrobeItems, wardrobeLoading, selectedItem,
                 itemModalVisible, itemFeatures, addModalVisible,
                 uploadCategory, confirmDialog>>

\* launchCameraAsync or launchImageLibraryAsync is called
LaunchFx(source) ==
  [e |-> IF source = "camera" THEN "launchCameraAsync"
         ELSE "launchImageLibraryAsync"]

\* the permission is granted: pickImage opens the camera or the library
PermissionGranted(w, live) ==
  /\ Pending(w, live) /\ w.kind = "permission"
  /\ CommitWait("pickImage.granted", [source |-> w.source],
                <<LaunchFx(w.source)>>, w, live,
                <<PickerWait(w.source, w.item_type, w.category)>>)
  /\ UNCHANGED <<stats, loadingState, serverItems, wardrobeMounted, category,
                 wardrobeItems, wardrobeLoading, selectedItem,
                 itemModalVisible, itemFeatures, addModalVisible,
                 uploadCategory, confirmDialog>>

\* the camera or the library is left without an image: result.canceled
PickerCanceled(w, live) ==
  /\ Pending(w, live) /\ w.kind = "picker"
  /\ CommitWait("pickImage.canceled", [source |-> w.source], <<>>, w, live,
                <<>>)
  /\ UNCHANGED <<stats, loadingState, serverItems, wardrobeMounted, category,
                 wardrobeItems, wardrobeLoading, selectedItem,
                 itemModalVisible, itemFeatures, addModalVisible,
                 uploadCategory, confirmDialog>>

\* an await of pickImage threw: its catch block
PickImageFails(w, live) ==
  /\ Pending(w, live) /\ w.kind \in {"permission", "picker"}
  /\ CommitWait("pickImage.failed", [source |-> w.source],
                <<AlertFx("Error", "Failed to pick image")>>, w, live, <<>>)
  /\ UNCHANGED <<stats, loadingState, serverItems, wardrobeMounted, category,
                 wardrobeItems, wardrobeLoading, selectedItem,
                 itemModalVisible, itemFeatures, addModalVisible,
                 uploadCategory, confirmDialog>>

\* fetch(imageUri), the first await of addWardrobeItem
FetchImageFx == [e |-> "fetch", uri |-> "imageUri"]

\* The picker returned an image: uploadImage(uri) of pickImage's closure, up
\* to the first await of addWardrobeItem.
UploadImage(w, live) ==
  /\ Pending(w, live) /\ w.kind = "picker"
  /\ addModalVisible' = IF live THEN FALSE ELSE addModalVisible
  /\ loadingState' = Uploading
  /\ CommitWait("uploadImage", [item_type |-> w.item_type],
                <<SetLoadingStateFx(TRUE), FetchImageFx>>, w, live,
                <<ImageWait(w.item_type, w.category)>>)
  /\ UNCHANGED <<stats, serverItems, wardrobeMounted, category,
                 wardrobeItems, wardrobeLoading, selectedItem,
                 itemModalVisible, itemFeatures, uploadCategory,
                 confirmDialog>>

\* fetch(imageUri) and blob() resolved: addWardrobeItem sends the POST
ImageRead(w, live) ==
  /\ Pending(w, live) /\ w.kind = "image"
  /\ CommitWait("addWardrobeItem.send", [item_type |-> w.item_type],
                <<Request(AddCall(w.item_type, w.category))>>, w, live, <<>>)
  /\ UNCHANGED <<stats, loadingState, serverItems, wardrobeMounted, category,
                 wardrobeItems, wardrobeLoading, selectedItem,
                 itemModalVisible, itemFeatures, addModalVisible,
                 uploadCategory, confirmDialog>>

\* uploadImage once addWardrobeItem has resolved: the overlay shows
\* Processing and the refresh is scheduled
AddSuccessEffects == <<SetLoadingStateFx(TRUE), SetTimeoutFx>>

\* addWardrobeItem resolved
AddSucceeds(r) ==
  /\ Awaited(r) /\ r.kind = "add"
  /\ BagCardinality(waits) < MaxWaits
  /\ serverItems' = ServerAfter(r)
  /\ loadingState' = Processing
  /\ waits' = waits (+) SetToBag({TimerWait(r.category)})
  /\ CommitWardrobe("addWardrobeItem.ok", [req |-> r], AddSuccessEffects,
                    Settled(r))
  /\ UNCHANGED <<stats, wardrobeMounted, category, wardrobeItems,
                 wardrobeLoading, selectedItem, itemModalVisible,
                 itemFeatures, addModalVisible, uploadCategory, confirmDialog>>

\* A different catch block, which C39 rules out: the overlay is not cleared.
UploadFailureEffectsKeepingOverlay(failure) ==
  << AlertFx("Error", ErrorMessage(failure)) >>

\* the catch block of uploadImage
UploadFailureEffects(failure) ==
  << SetLoadingStateFx(FALSE), AlertFx("Error", ErrorMessage(failure)) >>

\* the overlay once the effects fx have run
OverlayAfter(fx) ==
  IF SetLoadingStateFx(FALSE) \in Elements(fx) THEN NotLoading
  ELSE loadingState

\* fetch(imageUri) rejected: addWardrobeItem throws, the catch block of
\* uploadImage runs
ImageReadFails(w, live, failure) ==
  /\ Pending(w, live) /\ w.kind = "image"
  /\ failure.rejected
  /\ loadingState' = OverlayAfter(UploadFailureEffects(failure))
  /\ CommitWait("uploadImage.failed", [failure |-> failure],
                UploadFailureEffects(failure), w, live, <<>>)
  /\ UNCHANGED <<stats, serverItems, wardrobeMounted, category,
                 wardrobeItems, wardrobeLoading, selectedItem,
                 itemModalVisible, itemFeatures, addModalVisible,
                 uploadCategory, confirmDialog>>

\* addWardrobeItem rejected
AddFails(r, failure) ==
  /\ Awaited(r) /\ r.kind = "add"
  /\ loadingState' = OverlayAfter(UploadFailureEffects(failure))
  /\ CommitWardrobe("addWardrobeItem.failed",
                    [req |-> r, failure |-> failure],
                    UploadFailureEffects(failure), Settled(r))
  /\ UNCHANGED <<stats, serverItems, wardrobeMounted, category,
                 wardrobeItems, wardrobeLoading, selectedItem,
                 itemModalVisible, itemFeatures, addModalVisible,
                 uploadCategory, confirmDialog, waits>>

\* The 2000 ms callback of uploadImage runs: loadItems() of uploadImage's
\* closure, up to its await.
UploadTimerFires(w, live) ==
  /\ Pending(w, live) /\ w.kind = "uploadTimer"
  /\ wardrobeLoading' = IF live THEN TRUE ELSE wardrobeLoading
  /\ CommitWait("uploadTimer", Nil,
                <<Request(LoadItemsCall(w.category, "upload"))>>, w, live,
                <<>>)
  /\ UNCHANGED <<stats, loadingState, serverItems, wardrobeMounted, category,
                 wardrobeItems, selectedItem, itemModalVisible, itemFeatures,
                 addModalVisible, uploadCategory, confirmDialog>>

\* What pickImage and uploadImage await besides the server comes to an end.
WaitEnds ==
  \E w \in BagToSet(waits) : \E live \in BOOLEAN :
    \/ PermissionGranted(w, live)
    \/ PermissionDenied(w, live)
    \/ PickerCanceled(w, live)
    \/ PickImageFails(w, live)
    \/ UploadImage(w, live)
    \/ ImageRead(w, live)
    \/ \E failure \in Failures : ImageReadFails(w, live, failure)
    \/ UploadTimerFires(w, live)

\* ---------------------------------------------------------------- the tabs
\* The requests and awaits left without their component when the tab shown
\* unmounts.
OrphanedAfterLeaving(tab) ==
  LET pending == inflight (+) waits
      left == {x \in BagToSet(pending) :
                 x.kind \in OwnedBy(tab) \/ BagIn(x, orphaned)}
  IN  [x \in left |-> IF x.kind \in OwnedBy(tab) THEN CopiesIn(x, pending)
                      ELSE CopiesIn(x, orphaned)]

\* What the effects of the first render of a tab's component do.
TabMountEffects(tab, anchor) ==
  CASE tab = "outfits" -> OutfitsMountEffects(anchor)
    [] tab = "wardrobe" -> <<Request(LoadItemsCall("all", "none"))>>
    [] OTHER -> <<>>

\* The tab bar takes presses: the effects of the tab shown have run and no
\* modal, dialog or overlay covers the bar.
TabBar ==
  /\ currentTab = "outfits" => mounted
  /\ currentTab = "wardrobe" => wardrobeMounted
  /\ ~pickerModalVisible
  /\ ~itemModalVisible
  /\ ~addModalVisible
  /\ confirmDialog = Nil
  /\ ~loadingState.isLoading

\* App renders another tab: the component shown unmounts, so its state is
\* dropped, its pending timers find nothing to change and its requests stay
\* outstanding; the component of `tab` mounts with the initial values of its
\* state and runs its effects, with `anchor` as App's autoGenerateItem.
SwitchTab(op, arg, before, tab, anchor) ==
  LET fx == before \o TabMountEffects(tab, anchor)
      entersOutfits == tab = "outfits"
  IN  /\ tab # currentTab
      /\ BagCardinality(inflight) + Len(RequestsOf(fx)) <= MaxInFlight
      /\ currentTab' = tab
      /\ mounted' = entersOutfits
      /\ autoGenerateItem' = IF entersOutfits THEN Nil ELSE anchor
      /\ selectedItems' = IF entersOutfits /\ anchor # Nil
                          THEN AnchorSlots(anchor) ELSE EmptySlots
      /\ loading' = (entersOutfits /\ anchor # Nil /\ variant = "OutfitsTab")
      /\ currentOutfit' = Nil
      /\ lastRating' = NoRating
      /\ recentRatings' = <<>>
      /\ pickerModalVisible' = FALSE
      /\ pickerItems' = <<>>
      /\ currentPickerSlot' = NULL
      /\ timers' = 0
      /\ rateRequests' = 0
      /\ wardrobeMounted' = (tab = "wardrobe")
      /\ wardrobeLoading' = (tab = "wardrobe")
      /\ category' = "all"
      /\ wardrobeItems' = <<>>
      /\ selectedItem' = Nil
      /\ itemModalVisible' = FALSE
      /\ itemFeatures' = Nil
      /\ addModalVisible' = FALSE
      /\ uploadCategory' = "shirt"
      /\ confirmDialog' = Nil
      /\ waits' = waits
      /\ statsView' = IF tab = "stats" THEN StatsTabView(stats) ELSE Nil
      /\ orphaned' = OrphanedAfterLeaving(currentTab)
      /\ inflight' = inflight (+) BagOfSeq(RequestsOf(fx))
      /\ lastStep' = Step(op, arg, fx)
      /\ UNCHANGED <<variant, stats, loadingState, platform, serverItems>>

\* A button of the tab bar: setCurrentTab(tab). Pressed for the tab shown it
\* changes nothing.
SetCurrentTab(tab) ==
  /\ TabBar
  /\ IF tab = currentTab
     THEN /\ lastStep' = Step("setCurrentTab", [tab |-> tab], <<>>)
          /\ UNCHANGED <<appVars, tabVars, inflight, orphaned, timers,
                         rateRequests, viewVars, wardrobeVars>>
     ELSE SwitchTab("setCurrentTab", [tab |-> tab], <<>>, tab,
                    autoGenerateItem)

\* The create-outfit button of the detail view: createOutfitWithItem.
CreateOutfitWithItem ==
  /\ ItemModalOpen
  /\ selectedItem # Nil
  /\ SwitchTab("createOutfitWithItem", [item |-> selectedItem],
               <<CloseItemModalFx>>, "outfits",
               [type |-> selectedItem.item_type,
                id |-> selectedItem.clothing_id])

\* What the continuation of a call does once it has resolved and its
\* component has unmounted: the state setters of the component change
\* nothing, everything else runs as written.
UnmountedSuccessEffects(r, result) ==
  CASE r.kind = "rate" -> RateSuccessEffects(r, result)
    [] r.kind = "loadItems" -> AfterLoadItems(r)
    [] r.kind = "delete" -> DeleteSuccessEffects(r)
    [] r.kind = "add" -> AddSuccessEffects
    [] OTHER -> <<>>

\* the same for a call that has rejected: the catch blocks
UnmountedFailureEffects(r, failure) ==
  CASE IsResolver(r) -> <<ResolverAlert(r)>>
    [] r.kind = "items" -> <<AlertFx("Error", "Failed to load items")>>
    [] r.kind = "rate" -> RateFailureEffects
    [] r.kind = "loadItems" ->
         <<AlertFx("Error", "Failed to load wardrobe items")>>
           \o AfterLoadItems(r)
    [] r.kind = "delete" -> DeleteFailureEffects(failure)
    [] r.kind = "add" -> UploadFailureEffects(failure)
    [] OTHER -> <<>>

\* A task of an unmounted component ends: the requests it has issued for
\* its own component, and the awaits `next` it begins, are without a
\* component from the start.
CommitUnmounted(op, arg, fx, r, next) ==
  LET issued == BagOfSeq(RequestsOf(fx))
  IN  /\ BagCardinality(Settled(r)) + Len(RequestsOf(fx)) <= MaxInFlight
      /\ inflight' = Settled(r) (+) issued
      /\ waits' = waits (+) BagOfSeq(next)
      /\ orphaned' = (orphaned (-) SetToBag({r})) (+) Owned(issued)
                       (+) BagOfSeq(next)
      /\ lastStep' = Step(op, arg, fx)
      /\ UNCHANGED <<variant, mounted, stats, autoGenerateItem, tabVars,
                     timers, rateRequests, viewVars, platform,
                     wardrobeMounted, category, wardrobeItems,
                     wardrobeLoading, selectedItem, itemModalVisible,
                     itemFeatures, addModalVisible, uploadCategory,
                     confirmDialog>>

\* A call of an unmounted component resolved.
UnmountedResolves(r, result) ==
  /\ BagIn(r, inflight) /\ BagIn(r, orphaned)
  /\ r.kind = "add" => BagCardinality(waits) < MaxWaits
  /\ loadingState' = IF r.kind = "rate" /\ result.should_retrain THEN Training
                     ELSE IF r.kind = "add" THEN Processing
                     ELSE loadingState
  /\ serverItems' = ServerAfter(r)
  /\ CommitUnmounted("unmounted.ok", [req |-> r, result |-> result],
                     UnmountedSuccessEffects(r, result), r,
                     IF r.kind = "add" THEN <<TimerWait(r.category)>>
                     ELSE <<>>)

\* A call of an unmounted component rejected.
UnmountedRejects(r, failure) ==
  /\ BagIn(r, inflight) /\ BagIn(r, orphaned)
  /\ loadingState' = OverlayAfter(UnmountedFailureEffects(r, failure))
  /\ CommitUnmounted("unmounted.failed", [req |-> r, failure |-> failure],
                     UnmountedFailureEffects(r, failure), r, <<>>)
  /\ UNCHANGED serverItems

\* what a call of an unmounted component may resolve with
ResultsOf(r) == IF r.kind = "rate" THEN RateResults ELSE {Nil}

\* how it may fail: only the alerts of performDelete and uploadImage tell
\* one failure from another
FailuresOf(r) ==
  IF r.kind \in {"delete", "add"} THEN Failures
  ELSE {f \in Failures : f.rejected}

\* ------------------------------------------------------ the stats tab shown
\* The stats tab was pressed while the loadStats() of App's mount effect was
\* still outstanding: StatsTab has rendered with no stats.
InitStatsTab ==
  /\ variant = "OutfitsTab"
  /\ OutfitsUnmounted
  /\ WardrobeUnmounted
  /\ currentTab = "stats"
  /\ stats = Nil
  /\ loadingState = NotLoading
  /\ statsView = StatsTabView(Nil)
  /\ inflight = SetToBag({StatsCall("none")})
  /\ orphaned = EmptyBag
  /\ lastStep = Step("setCurrentTab", [tab |-> "stats"], <<>>)

\* --------------------------------------------------------- specifications
\* The builder: the slots, the resolver calls and the recent cards; the
\* slots are filled by the anchor, by a resolver call or by a recent card.
NextBuilder ==
  \/ MountEffects
  \/ GenerateOutfitFromBuilder
  \/ GenerateRandomOutfit
  \/ \E slot \in Roles : ClearItemSlot(slot)
  \/ \E rating \in RecentCards : HandleRecentOutfitPress(rating)
  \/ \E r \in BagToSet(inflight) : \E data \in ServerOutfits :
       ResolverSucceeds(r, data)
  \/ \E r \in BagToSet(inflight) : ResolverFails(r)
  \/ \E r \in BagToSet(inflight) : \E n \in 0..MaxHistory :
       RecentRatingsArrive(r, n)
  \/ \E r \in BagToSet(inflight) : RecentRatingsFail(r)

SpecBuilder == Init /\ [][NextBuilder]_vars

\* The item picker next to the resolver calls: the slots are filled one by
\* one from the picker while build and random calls come and go.
NextSelect ==
  \/ MountEffects
  \/ GenerateOutfitFromBuilder
  \/ GenerateRandomOutfit
  \/ \E slot \in Roles : OpenItemPicker(slot)
  \/ \E r \in BagToSet(inflight) : PickerItemsArrive(r)
  \/ \E item \in Elements(Catalog) : SelectItemForSlot(item)
  \/ ClosePicker
  \/ \E r \in BagToSet(inflight) : \E data \in ServerOutfits :
       ResolverSucceeds(r, data)
  \/ \E r \in BagToSet(inflight) : ResolverFails(r)
  \/ \E r \in BagToSet(inflight) : RecentRatingsFail(r)

SpecSelect == Init /\ [][NextSelect]_vars

\* Select and clear: slots are filled from the picker and emptied again.
NextSlots ==
  \/ MountEffects
  \/ \E slot \in Roles : OpenItemPicker(slot)
  \/ \E r \in BagToSet(inflight) : PickerItemsArrive(r)
  \/ \E item \in Elements(Catalog) : SelectItemForSlot(item)
  \/ \E slot \in Roles : ClearItemSlot(slot)
  \/ \E r \in BagToSet(inflight) : \E data \in ServerOutfits :
       ResolverSucceeds(r, data)
  \/ \E r \in BagToSet(inflight) : ResolverFails(r)

SpecSlots == Init /\ [][NextSlots]_vars

\* The rating flow: resolver calls, stars, rate and retrain calls, the stats
\* refetches, the reset timer and the recent cards.
NextRating ==
  \/ MountEffects
  \/ GenerateOutfitFromBuilder
  \/ GenerateRandomOutfit
  \/ \E r \in BagToSet(inflight) : \E data \in ServerOutfits :
       ResolverSucceeds(r, data)
  \/ \E r \in BagToSet(inflight) : ResolverFails(r)
  \/ \E slot \in Roles : ClearItemSlot(slot)
  \/ \E rating \in StarInputs : HandleRateOutfit(rating)
  \/ \E r \in BagToSet(inflight) : \E result \in RateResults :
       RateSucceeds(r, result)
  \/ \E r \in BagToSet(inflight) : RateFails(r)
  \/ \E r \in BagToSet(inflight) : RetrainSucceeds(r)
  \/ \E r \in BagToSet(inflight) : RetrainFails(r)
  \/ \E r \in BagToSet(inflight) : \E data \in ServerStats :
       StatsArrive(r, data)
  \/ \E r \in BagToSet(inflight) : StatsFail(r)
  \/ ResetTimerFires
  \/ \E r \in BagToSet(inflight) : \E n \in 0..MaxHistory :
       RecentRatingsArrive(r, n)
  \/ \E r \in BagToSet(inflight) : RecentRatingsFail(r)
  \/ \E rating \in RecentCards : HandleRecentOutfitPress(rating)

SpecRating == Init /\ [][NextRating]_vars

\* The stars: any of the five is pressed on the outfit a resolver call
\* returned, and handleRateOutfit may be called with no outfit held.
NextStars ==
  \/ MountEffects
  \/ GenerateOutfitFromBuilder
  \/ \E r \in BagToSet(inflight) : \E data \in ServerOutfits :
       ResolverSucceeds(r, data)
  \/ \E r \in BagToSet(inflight) : ResolverFails(r)
  \/ \E slot \in Roles : ClearItemSlot(slot)
  \/ \E rating \in Stars : HandleRateOutfit(rating)
  \/ \E rating \in Stars : HandleRateOutfitWithoutOutfit(rating)
  \/ \E r \in BagToSet(inflight) :
       \E n \in RatingCounts :
         RateSucceeds(r, [should_retrain |-> FALSE, rating_count |-> n])
  \/ \E r \in BagToSet(inflight) : RateFails(r)
  \/ \E r \in BagToSet(inflight) : \E data \in ServerStats :
       StatsArrive(r, data)
  \/ ResetTimerFires
  \/ \E r \in BagToSet(inflight) : \E n \in 0..MaxHistory :
       RecentRatingsArrive(r, n)

SpecStars == Init /\ [][NextStars]_vars

\* The recent-ratings cache: the list is fetched on mount and after every
\* successful rating, and the server's history may be longer than the cache.
NextRecent ==
  \/ MountEffects
  \/ GenerateOutfitFromBuilder
  \/ \E r \in BagToSet(inflight) : \E data \in ServerOutfits :
       ResolverSucceeds(r, data)
  \/ \E rating \in StarInputs : HandleRateOutfit(rating)
  \/ \E r \in BagToSet(inflight) :
       \E n \in RatingCounts :
         RateSucceeds(r, [should_retrain |-> FALSE, rating_count |-> n])
  \/ \E r \in BagToSet(inflight) : \E data \in ServerStats :
       StatsArrive(r, data)
  \/ ResetTimerFires
  \/ \E r \in BagToSet(inflight) : \E n \in 0..MaxFetched :
       RecentRatingsArrive(r, n)
  \/ \E r \in BagToSet(inflight) : RecentRatingsFail(r)

SpecRecent == Init /\ [][NextRecent]_vars

\* The wardrobe grid: the mount, the category filter and the item fetches.
NextCatalog ==
  \/ WardrobeMount
  \/ \E c \in Categories : SetCategory(c)
  \/ \E r \in BagToSet(inflight) : ItemsArrive(r)
  \/ \E r \in BagToSet(inflight) : ItemsFail(r)
  \/ \E r \in BagToSet(inflight) : StatsArrive(r, StatsOf(serverItems))
  \/ \E r \in BagToSet(inflight) : StatsFail(r)

SpecCatalog == InitWardrobe /\ [][NextCatalog]_vars

\* The wardrobe grid on a connection where every fetch succeeds, in any
\* order.
NextReorder ==
  \/ WardrobeMount
  \/ \E c \in Categories : SetCategory(c)
  \/ \E r \in BagToSet(inflight) : ItemsArrive(r)
  \/ \E r \in BagToSet(inflight) : StatsArrive(r, StatsOf(serverItems))

SpecReorder == InitWardrobe /\ [][NextReorder]_vars

\* Every list fetch: the wardrobe grid, and the item picker of the outfits
\* tab; App shows one of the two tabs.
NextLists ==
  \/ NextCatalog
  \/ MountEffects
  \/ \E slot \in Roles : OpenItemPicker(slot)
  \/ \E r \in BagToSet(inflight) : PickerItemsArrive(r)
  \/ \E r \in BagToSet(inflight) : PickerItemsFail(r)
  \/ ClosePicker

SpecLists == InitApp /\ [][NextLists]_vars

\* The item picker: a slot's add button, the list arriving or not, an item
\* of the list shown being pressed.
NextPicker ==
  \/ MountEffects
  \/ \E slot \in Roles : OpenItemPicker(slot)
  \/ \E r \in BagToSet(inflight) : PickerItemsArrive(r)
  \/ \E r \in BagToSet(inflight) : PickerItemsFail(r)
  \/ \E item \in Elements(Catalog) : SelectItemForSlot(item)
  \/ ClosePicker

SpecPicker == Init /\ [][NextPicker]_vars

\* The unfiltered grid, which every flow of the wardrobe tab starts from.
NextGrid ==
  \/ WardrobeMount
  \/ \E r \in BagToSet(inflight) : ItemsArrive(r)
  \/ \E r \in BagToSet(inflight) : ItemsFail(r)
  \/ \E r \in BagToSet(inflight) : StatsArrive(r, StatsOf(serverItems))
  \/ \E r \in BagToSet(inflight) : StatsFail(r)

\* The detail view and the delete flow.
NextDelete ==
  \/ NextGrid
  \/ \E item \in Elements(wardrobeItems) : OpenItemModal(item)
  \/ \E r \in BagToSet(inflight) : FeaturesArrive(r)
  \/ \E r \in BagToSet(inflight) : \E failure \in Failures :
       FeaturesFail(r, failure)
  \/ CloseItemModal
  \/ \E confirmed \in BOOLEAN : DeleteItemWeb(confirmed)
  \/ DeleteItemNative
  \/ ConfirmDelete
  \/ CancelDelete
  \/ \E r \in BagToSet(inflight) : DeleteSucceeds(r)
  \/ \E r \in BagToSet(inflight) : \E failure \in Failures :
       DeleteFails(r, failure)

SpecDelete == InitWardrobe /\ [][NextDelete]_vars

\* The add modal and the upload flow.
NextUpload ==
  \/ NextGrid
  \/ OpenAddModal
  \/ CloseAddModal
  \/ \E c \in Roles : SetUploadCategory(c)
  \/ \E source \in Sources : PickImage(source)
  \/ WaitEnds
  \/ \E r \in BagToSet(inflight) : AddSucceeds(r)
  \/ \E r \in BagToSet(inflight) : \E failure \in Failures :
       AddFails(r, failure)

SpecUpload == InitWardrobe /\ [][NextUpload]_vars

\* The two flows that show the blocking overlay from the wardrobe tab: the
\* confirmed delete and the upload.
NextChanges ==
  \/ WardrobeMount
  \/ \E r \in BagToSet(inflight) : ItemsArrive(r)
  \/ \E r \in BagToSet(inflight) : ItemsFail(r)
  \/ \E r \in BagToSet(inflight) : StatsArrive(r, StatsOf(serverItems))
  \/ \E r \in BagToSet(inflight) : StatsFail(r)
  \/ \E item \in Elements(wardrobeItems) : OpenItemModal(item)
  \/ \E r \in BagToSet(inflight) : FeaturesArrive(r)
  \/ \E confirmed \in BOOLEAN : DeleteItemWeb(confirmed)
  \/ DeleteItemNative
  \/ ConfirmDelete
  \/ \E r \in BagToSet(inflight) : DeleteSucceeds(r)
  \/ \E r \in BagToSet(inflight) : \E failure \in Failures :
       DeleteFails(r, failure)
  \/ OpenAddModal
  \/ \E source \in Sources : PickImage(source)
  \/ WaitEnds
  \/ \E r \in BagToSet(inflight) : AddSucceeds(r)
  \/ \E r \in BagToSet(inflight) : \E failure \in Failures :
       AddFails(r, failure)

SpecChanges == InitWardrobe /\ [][NextChanges]_vars

\* Every call of the wardrobe tab that is outstanding settles, one way or the
\* other, the permission dialog and the picker are answered and every pending
\* upload timer fires.
FairChanges ==
  /\ SpecChanges
  /\ WF_vars(\E r \in BagToSet(inflight) : ItemsArrive(r) \/ ItemsFail(r))
  /\ WF_vars(\E r \in BagToSet(inflight) :
               StatsArrive(r, StatsOf(serverItems)) \/ StatsFail(r))
  /\ WF_vars(\E r \in BagToSet(inflight) : FeaturesArrive(r))
  /\ WF_vars(\E r \in BagToSet(inflight) : \E failure \in Failures :
               DeleteSucceeds(r) \/ DeleteFails(r, failure))
  /\ WF_vars(\E r \in BagToSet(inflight) : \E failure \in Failures :
               AddSucceeds(r) \/ AddFails(r, failure))
  /\ WF_vars(WaitEnds)

\* Everything that changes what the server holds: delete and upload from
\* the wardrobe tab, rating and retrain from the outfits tab; App shows one
\* of the two tabs.
NextStatsRefetch ==
  \/ NextGrid
  \/ \E item \in Elements(wardrobeItems) : OpenItemModal(item)
  \/ \E r \in BagToSet(inflight) : FeaturesArrive(r)
  \/ \E confirmed \in BOOLEAN : DeleteItemWeb(confirmed)
  \/ DeleteItemNative
  \/ ConfirmDelete
  \/ \E r \in BagToSet(inflight) : DeleteSucceeds(r)
  \/ \E r \in BagToSet(inflight) : \E failure \in Failures :
       DeleteFails(r, failure)
  \/ OpenAddModal
  \/ \E source \in Sources : PickImage(source)
  \/ WaitEnds
  \/ \E r \in BagToSet(inflight) : AddSucceeds(r)
  \/ \E r \in BagToSet(inflight) : \E failure \in Failures :
       AddFails(r, failure)
  \/ NextRating

SpecStatsRefetch == InitApp /\ [][NextStatsRefetch]_vars

\* Every operation of the wardrobe tab.
NextWardrobe == NextCatalog \/ NextDelete \/ NextUpload

SpecWardrobe == InitWardrobe /\ [][NextWardrobe]_vars

\* The tab bar and the create-outfit button: App starts on the wardrobe tab,
\* the user looks at items, opens the add modal, has an outfit made from an
\* item, fills the builder, rates, and moves between the three tabs while
\* calls are outstanding.
NextTabs ==
  \/ WardrobeMount
  \/ \E r \in BagToSet(inflight) : ItemsArrive(r)
  \/ \E r \in BagToSet(inflight) : StatsArrive(r, StatsOf(serverItems))
  \/ \E item \in Elements(wardrobeItems) : OpenItemModal(item)
  \/ \E r \in BagToSet(inflight) : FeaturesArrive(r)
  \/ CloseItemModal
  \/ CreateOutfitWithItem
  \/ OpenAddModal
  \/ CloseAddModal
  \/ \E c \in Roles : SetUploadCategory(c)
  \/ \E tab \in Tabs : SetCurrentTab(tab)
  \/ GenerateOutfitFromBuilder
  \/ \E r \in BagToSet(inflight) : \E data \in ServerOutfits :
       ResolverSucceeds(r, data)
  \/ \E r \in BagToSet(inflight) : ResolverFails(r)
  \/ \E r \in BagToSet(inflight) : \E n \in 0..MaxHistory :
       RecentRatingsArrive(r, n)
  \/ \E rating \in StarInputs : HandleRateOutfit(rating)
  \/ \E r \in BagToSet(inflight) : \E result \in RateResults :
       RateSucceeds(r, result)
  \/ \E r \in BagToSet(inflight) : RetrainSucceeds(r)
  \/ ResetTimerFires
  \/ \E r \in BagToSet(orphaned) : \E result \in ResultsOf(r) :
       UnmountedResolves(r, result)
  \/ \E r \in BagToSet(orphaned) : \E failure \in FailuresOf(r) :
       UnmountedRejects(r, failure)

SpecTabs == InitTabs /\ [][NextTabs]_vars

\* The tab bar next to the delete flow: an item is deleted from a detail view
\* that is open under the overlay of a retraining, and the tab is left while
\* the delete is outstanding.
NextLeaving ==
  \/ NextTabs
  \/ \E confirmed \in BOOLEAN : DeleteItemWeb(confirmed)
  \/ DeleteItemNative
  \/ ConfirmDelete
  \/ CancelDelete
  \/ \E r \in BagToSet(inflight) : DeleteSucceeds(r)

SpecLeaving == InitTabs /\ [][NextLeaving]_vars

\* The stats tab: the stats response arrives, with the stats or with an
\* error body, or not at all.
NextStatsTab ==
  \/ \E r \in BagToSet(inflight) : \E data \in StatsInputs \cup StatsErrors :
       StatsArrive(r, data)
  \/ \E r \in BagToSet(inflight) : StatsFail(r)

SpecStatsTab == InitStatsTab /\ [][NextStatsTab]_vars

\* ----------------------------------------------------------------- claims
FilledCount(slots) == Cardinality({r \in Roles : slots[r] # NULL})

\* the resolver requests outstanding
ResolversInFlight ==
  BagCardinality([r \in {x \in BagToSet(inflight) : IsResolver(x)}
                    |-> CopiesIn(r, inflight)])

\* the resolver requests the last task issued
ResolverRequestsOfLastStep ==
  SelectSeq(RequestsOf(lastStep.fx), IsResolver)

\* a precedes b among the effects fx
Precedes(a, b, fx) ==
  \E i, j \in 1..Len(fx) : i < j /\ fx[i] = a /\ fx[j] = b

\* C1: a select that leaves all three slots filled issues exactly one build
\* request, and that request carries the slots as they are after the select.
C1_SelectCompletingBuilds ==
  (lastStep.op = "selectItemForSlot" /\ FilledCount(selectedItems) = 3)
    => RequestsOf(lastStep.fx) = <<BuildCall(selectedItems)>>

\* C2: when a resolver call resolves, the three slots are exactly the shirt,
\* pants and shoes of the returned outfit, whatever the slots held before.
C2_SlotsFollowReturnedOutfit ==
  lastStep.op = "resolver.ok"
    => selectedItems = [shirt |-> lastStep.arg.data.shirt,
                        pants |-> lastStep.arg.data.pants,
                        shoes |-> lastStep.arg.data.shoes]

\* a resolver call has just resolved with an outfit that differs from a slot
\* the request was issued with
C2_Witness ==
  /\ lastStep.op = "resolver.ok"
  /\ \E r \in Roles :
       /\ IssuedSlots(lastStep.arg.req)[r] # NULL
       /\ IssuedSlots(lastStep.arg.req)[r] # selectedItems[r]

\* C3: when a resolver call fails, the slots equal the slots at the moment the
\* call was issued, and an error notice is surfaced.
C3_FailureLeavesIssuedSlots ==
  lastStep.op = "resolver.failed"
    => /\ selectedItems = IssuedSlots(lastStep.arg.req)
       /\ \E i \in 1..Len(lastStep.fx) : lastStep.fx[i].e = "alert"

\* C4: at most one resolver request is outstanding at any time.
C4_OneResolverInFlight == ResolversInFlight <= 1

\* C5: at most one rate request is issued for one displayed outfit instance.
C5_OneRateRequestPerOutfit == rateRequests <= 1

\* C6: a task issues a retrain request exactly when it handles a resolved
\* rating response with should_retrain = true, and then it issues exactly one;
\* a response with should_retrain = false, a failed rating and every other
\* task issue none.
C6_RetrainOncePerRetrainResponse ==
  LET retrains == SelectSeq(RequestsOf(lastStep.fx),
                            LAMBDA r : r.kind = "retrain")
  IN IF lastStep.op = "handleRateOutfit.ok" /\ lastStep.arg.should_retrain
     THEN Len(retrains) = 1
     ELSE Len(retrains) = 0

\* a rating response with should_retrain = true has just been handled and its
\* retrain request is outstanding
C6_Witness ==
  /\ lastStep.op = "handleRateOutfit.ok"
  /\ lastStep.arg.should_retrain
  /\ BagIn(RetrainCall, inflight)

\* C7: once retrain has completed the blocking loading state is cleared
\* first and stats are re-fetched after that, so the blocking state is no
\* longer set when the task that handles the resolved retrain ends.
C7_ClearThenRefetch ==
  lastStep.op = "retrainModel.ok" => ~loadingState.isLoading

\* C8: whenever an outfit is held and no resolver request is outstanding, the
\* three slots are the three identifiers of that outfit.
C8_SlotsEqualDisplayedOutfit ==
  (currentOutfit # Nil /\ ResolversInFlight = 0)
    => selectedItems = SlotsOf(currentOutfit)

\* C9 as stated: a select that leaves fewer than three slots filled issues no
\* resolver request, and with fewer than three slots filled only the
\* fill-empty-slots press issues one.
C9_OnlyFillButtonBelowThree ==
  /\ (lastStep.op = "selectItemForSlot" /\ FilledCount(selectedItems) < 3)
       => ResolverRequestsOfLastStep = <<>>
  /\ (ResolverRequestsOfLastStep # <<>> /\ FilledCount(selectedItems) < 3)
       => lastStep.op = "generateOutfitFromBuilder"

\* C9 amended: a select that leaves fewer than three slots filled issues no
\* resolver request; with fewer than three slots filled a resolver request
\* is issued only by the fill-empty-slots press, by the random press or by
\* the anchor hand-off at mount.
C9_OnlyExplicitGenerateBelowThree ==
  /\ (lastStep.op = "selectItemForSlot" /\ FilledCount(selectedItems) < 3)
       => ResolverRequestsOfLastStep = <<>>
  /\ (ResolverRequestsOfLastStep # <<>> /\ FilledCount(selectedItems) < 3)
       => lastStep.op \in {"generateOutfitFromBuilder",
                           "generateRandomOutfit", "mount"}

\* a select has just filled the second slot, and nothing was requested
C9_Witness ==
  /\ lastStep.op = "selectItemForSlot"
  /\ FilledCount(selectedItems) = 2
  /\ lastStep.fx = <<>>

\* C10: right after a select or a clear no outfit is held and no rating is
\* recorded.
C10_SelectAndClearInvalidate ==
  lastStep.op \in {"selectItemForSlot", "clearItemSlot"}
    => (currentOutfit = Nil /\ lastRating = NoRating)

\* C11: a select changes only the slot the picker was opened for, to the
\* identifier of the item pressed, and a clear nulls only the slot it was
\* pressed on; the other two slots keep their values in both.
C11_SelectAndClearTouchOneSlot ==
  [][ /\ lastStep'.op = "selectItemForSlot"
        => /\ \A r \in Roles \ {lastStep'.arg.slot} :
                selectedItems'[r] = selectedItems[r]
           /\ \E item \in Elements(pickerItems) :
                selectedItems'[lastStep'.arg.slot] = item.clothing_id
      /\ lastStep'.op = "clearItemSlot"
        => /\ \A r \in Roles \ {lastStep'.arg.slot} :
                selectedItems'[r] = selectedItems[r]
           /\ selectedItems'[lastStep'.arg.slot] = NULL ]_vars

\* a select has just filled one slot while the other two hold items
C11_Witness ==
  /\ lastStep.op = "selectItemForSlot"
  /\ \A r \in Roles \ {lastStep.arg.slot} : selectedItems[r] # NULL

\* C12: clearing a slot twice in a row leaves the same slots, outfit and
\* rating as clearing it once, from every state and for every slot; right
\* after a clear, clearing the same slot again changes nothing.
C12_ClearIsIdempotent ==
  /\ \A slot \in Roles :
       ClearItem(ClearItem(BuilderState, slot), slot)
         = ClearItem(BuilderState, slot)
  /\ lastStep.op = "clearItemSlot"
       => ClearItem(BuilderState, lastStep.arg.slot) = BuilderState

\* a clear has just emptied one slot while the other two hold items
C12_Witness ==
  /\ lastStep.op = "clearItemSlot"
  /\ FilledCount(selectedItems) = 2

\* C13: once a failed resolver call has been handled no outfit is held, even
\* when one was displayed before the call was triggered.
C13_FailureClearsOutfit ==
  lastStep.op = "resolver.failed" => currentOutfit = Nil

\* C14: the task that handles a failed rate request changes no local state
\* (lastRating, currentOutfit, the slots, the recent ratings, stats and the
\* blocking state stay as they were), schedules no reset, issues no request
\* (no stats refetch, no recent-ratings refetch, no retrain) and surfaces the
\* rating error.
C14_RateFailureChangesNothing ==
  [][ lastStep'.op = "handleRateOutfit.failed"
        => /\ UNCHANGED <<lastRating, currentOutfit, selectedItems,
                          recentRatings, stats, loadingState, loading,
                          timers>>
           /\ RequestsOf(lastStep'.fx) = <<>>
           /\ SetTimeoutFx \notin Elements(lastStep'.fx)
           /\ lastStep'.fx = <<AlertFx("Error", "Failed to save rating")>>
    ]_vars

\* a rate request has just failed while its outfit is displayed unrated
C14_Witness ==
  /\ lastStep.op = "handleRateOutfit.failed"
  /\ currentOutfit # Nil
  /\ lastRating = NoRating
  /\ timers = 0

\* C15: the task that handles a resolved rate request first records the star
\* value, then issues the stats refetch and the recent-ratings refetch, and
\* only after both, when should_retrain is true, enters the blocking state
\* and calls retrain; when should_retrain is false it does neither.
C15_RateSuccessOrder ==
  lastStep.op = "handleRateOutfit.ok"
    => /\ lastStep.fx[1] = SetLastRatingFx
       /\ lastRating \in StarInputs
       /\ Precedes(SetLastRatingFx, Request(StatsCall("none")), lastStep.fx)
       /\ Precedes(SetLastRatingFx, Request(RatingsCall), lastStep.fx)
       /\ IF lastStep.arg.should_retrain
          THEN /\ Precedes(Request(StatsCall("none")),
                           SetLoadingStateFx(TRUE), lastStep.fx)
               /\ Precedes(Request(RatingsCall),
                           SetLoadingStateFx(TRUE), lastStep.fx)
               /\ Precedes(SetLoadingStateFx(TRUE), Request(RetrainCall),
                           lastStep.fx)
          ELSE /\ SetLoadingStateFx(TRUE) \notin Elements(lastStep.fx)
               /\ Request(RetrainCall) \notin Elements(lastStep.fx)

\* a rating response asking for a retrain has just been handled: the star
\* value is recorded and the refetches and the retrain call are outstanding
C15_Witness ==
  /\ lastStep.op = "handleRateOutfit.ok"
  /\ lastStep.arg.should_retrain
  /\ lastRating # NoRating
  /\ BagIn(StatsCall("none"), inflight)
  /\ BagIn(RatingsCall, inflight)
  /\ BagIn(RetrainCall, inflight)

\* C16: once the task that handles the settled retrain call has run, by
\* success or by failure, the blocking loading state is cleared.
C16_ClearedWhenRetrainSettles ==
  lastStep.op \in {"retrainModel.ok", "retrainModel.failed"}
    => ~loadingState.isLoading

\* C17: the task that handles a settled retrain call, resolved or rejected,
\* issues one more stats refetch.
C17_RefetchAfterRetrainSettles ==
  lastStep.op \in {"retrainModel.ok", "retrainModel.failed"}
    => Len(SelectSeq(RequestsOf(lastStep.fx),
                     LAMBDA r : r.kind = "stats")) = 1

\* C18: the task that handles a rejected retrain call leaves the rating, the
\* displayed outfit, the slots, the pending reset, the recent ratings and
\* the stats as they are, issues no request and raises no alert; and the
\* task that called retrain had recorded the star and issued the stats and
\* recent-ratings refetches before it.
C18_RetrainFailureKeepsRating ==
  [][ /\ lastStep'.op = "retrainModel.failed"
           => /\ UNCHANGED <<lastRating, currentOutfit, selectedItems,
                             recentRatings, stats, timers, loading>>
              /\ RequestsOf(lastStep'.fx) = <<>>
              /\ \A e \in Elements(lastStep'.fx) : e.e # "alert"
      /\ (lastStep'.op = "handleRateOutfit.ok" /\ lastStep'.arg.should_retrain)
           => /\ lastRating' \in StarInputs
              /\ Precedes(SetLastRatingFx, Request(RetrainCall), lastStep'.fx)
              /\ Precedes(Request(StatsCall("none")), Request(RetrainCall),
                          lastStep'.fx)
              /\ Precedes(Request(RatingsCall), Request(RetrainCall),
                          lastStep'.fx)
    ]_vars

\* a retrain call has just failed while the rated outfit and its star are
\* still displayed
C18_Witness ==
  /\ lastStep.op = "retrainModel.failed"
  /\ lastRating \in StarInputs
  /\ currentOutfit # Nil
  /\ timers = 1

\* C19: the callback scheduled by a successful rating leaves all three slots
\* null, no outfit displayed and no rating; the task that handles the
\* successful rating itself keeps the outfit and the slots, records the star
\* and only schedules that callback.
C19_ResetAfterDelay ==
  [][ /\ lastStep'.op = "resetTimer"
           => /\ FilledCount(selectedItems') = 0
              /\ currentOutfit' = Nil
              /\ lastRating' = NoRating
      /\ lastStep'.op = "handleRateOutfit.ok"
           => /\ UNCHANGED <<currentOutfit, selectedItems>>
              /\ lastRating' \in StarInputs
              /\ timers' = timers + 1
              /\ Len(SelectSeq(lastStep'.fx, LAMBDA e : e = SetTimeoutFx)) = 1
    ]_vars

\* the callback has just run and nothing is left of the rated outfit
C19_Witness ==
  /\ lastStep.op = "resetTimer"
  /\ FilledCount(selectedItems) = 0
  /\ currentOutfit = Nil
  /\ lastRating = NoRating
  /\ timers = 0

\* C20: a task started by the user that changes the slots, the displayed
\* outfit or the rating (a select or a clear always changes a slot, a press
\* on a recent card sets all three and the outfit) runs only when no resolver
\* call was outstanding before it: the resolver calls outstanding after it
\* are the ones it issued itself.
C20_NoUserChangeWhileResolving ==
  lastStep.op \in {"selectItemForSlot", "clearItemSlot",
                   "handleRecentOutfitPress"}
    => ResolversInFlight = Len(ResolverRequestsOfLastStep)

\* C21: a rate request is never issued for an outfit reconstructed from a
\* recent rating: whenever a star press issues a rate request, the displayed
\* outfit is one a resolver call returned. (A reconstructed outfit is
\* displayed only from the press on its card until a slot changes, a
\* resolver call returns or the reset callback runs.)
C21_ReconstructedNeverRated ==
  lastStep.op = "handleRateOutfit"
    => /\ currentOutfit # Nil
       /\ currentOutfit.score_source \notin {UserRatingTag(n) : n \in 1..5}

\* C22: a press on the card of recent rating R with star value N leaves
\* currentOutfit with R's shirt, pants and shoes, score N/5 and score_source
\* user_rating_N, the three slots with R's identifiers and lastRating N; the
\* outfit literal has that score and that source for every N in 1..5.
C22_ReselectReconstructs ==
  /\ lastStep.op = "handleRecentOutfitPress"
       => \E R \in RecentCards :
            /\ R.id = lastStep.arg.id
            /\ currentOutfit # Nil
            /\ SlotsOf(currentOutfit) =
                 [shirt |-> R.shirt_id, pants |-> R.pants_id,
                  shoes |-> R.shoes_id]
            /\ currentOutfit.score = <<R.rating, 5>>
            /\ currentOutfit.score_source = "user_rating_" \o ToString(R.rating)
            /\ selectedItems = SlotsOf(currentOutfit)
            /\ lastRating = R.rating
  /\ \A N \in 1..5 : \A k \in 1..2 :
       LET R == [RatingNo(k) EXCEPT !.rating = N]
       IN  /\ RecentOutfit(R).score = <<N, 5>>
           /\ RecentOutfit(R).score_source = "user_rating_" \o ToString(N)
           /\ SlotsOf(RecentOutfit(R)) =
                [shirt |-> R.shirt_id, pants |-> R.pants_id,
                 shoes |-> R.shoes_id]

\* a recent card has just been pressed and its outfit is displayed as rated
C22_Witness ==
  /\ lastStep.op = "handleRecentOutfitPress"
  /\ currentOutfit # Nil
  /\ lastRating \in 1..5
  /\ FilledCount(selectedItems) = 3

\* C23: the task that stores a ratings response leaves the cache equal to
\* the first three entries of that response, in the response's order (the
\* whole response when it is shorter); every other task, a failed ratings
\* fetch included, leaves the cache as it is.
C23_CacheIsCappedPrefix ==
  [][ /\ lastStep'.op = "loadRecentRatings.ok"
           => LET data == History(lastStep'.arg.n)
                  len  == IF Len(data) < 3 THEN Len(data) ELSE 3
              IN  /\ Len(recentRatings') = len
                  /\ \A i \in 1..len : recentRatings'[i] = data[i]
      /\ lastStep'.op # "loadRecentRatings.ok" => UNCHANGED recentRatings
    ]_vars

\* a response longer than the cache has just been stored
C23_Witness ==
  /\ lastStep.op = "loadRecentRatings.ok"
  /\ lastStep.arg.n > 3
  /\ Len(recentRatings) = 3

\* C25: the total StatsTab shows is the product of the three per-category
\* counts of the stats App holds, a count that is missing and stats that are
\* missing counting as 0: any empty category gives 0, and 3 shirts, 2 pants
\* and 4 shoes give 24.
C25_TotalCombinationsIsProduct ==
  /\ currentTab = "stats"
       => LET n(role) == IF stats = Nil THEN 0
                         ELSE IF "wardrobe_items" \notin DOMAIN stats THEN 0
                         ELSE IF role \in DOMAIN stats.wardrobe_items
                              THEN stats.wardrobe_items[role] ELSE 0
          IN  /\ statsView.totalCombinations = n("shirt") * n("pants") * n("shoes")
              /\ (\E role \in Roles : n(role) = 0)
                   => statsView.totalCombinations = 0
  /\ TotalCombinations([total_ratings |-> 0,
                        wardrobe_items |-> [shirt |-> 3, pants |-> 2,
                                            shoes |-> 4]]) = 24

\* the tab shows 24 combinations once stats with 3 shirts, 2 pants and
\* 4 shoes have arrived
C25_Witness ==
  /\ currentTab = "stats"
  /\ lastStep.op = "loadStats.ok"
  /\ stats # Nil
  /\ "wardrobe_items" \in DOMAIN stats
  /\ stats.wardrobe_items = [shirt |-> 3, pants |-> 2, shoes |-> 4]
  /\ statsView.totalCombinations = 24

\* C26: the countdown StatsTab shows for stats with a total_ratings count is
\* 5 - (total_ratings mod 5): it lies in 1..5, is 5 when total_ratings is a
\* multiple of 5 and 3 when total_ratings is 12; with no stats loaded it
\* is 5.
C26_RatingsUntilNextUpdate ==
  currentTab = "stats"
    => /\ stats = Nil => statsView.ratingsUntilNextUpdate = 5
       /\ (stats # Nil /\ "total_ratings" \in DOMAIN stats)
            => /\ statsView.ratingsUntilNextUpdate \in 1..5
               /\ statsView.ratingsUntilNextUpdate + (stats.total_ratings % 5) = 5
               /\ stats.total_ratings % 5 = 0
                    => statsView.ratingsUntilNextUpdate = 5
               /\ stats.total_ratings = 12
                    => statsView.ratingsUntilNextUpdate = 3

\* the tab shows the countdown for total_ratings = 10
C26_Witness ==
  /\ currentTab = "stats"
  /\ lastStep.op = "loadStats.ok"
  /\ stats # Nil
  /\ "total_ratings" \in DOMAIN stats
  /\ stats.total_ratings = 10
  /\ statsView.ratingsUntilNextUpdate = 5

\* C24: stats changes only in the task that stores a stats response, and
\* then it is that response; and every successful state-changing operation
\* leads to a stats refetch: a rating and a retrain issue it in the task
\* that handles their response, a delete issues the catalogue refetch whose
\* settling task issues it, and an upload schedules the callback that
\* issues the catalogue refetch whose settling task issues it.
C24_StatsOnlyRefetched ==
  [][ /\ stats' # stats
           => /\ lastStep'.op = "loadStats.ok"
              /\ stats' \in ServerStats \cup {StatsOf(serverItems)}
      /\ lastStep'.op \in {"handleRateOutfit.ok", "retrainModel.ok"}
           => \E r \in Elements(RequestsOf(lastStep'.fx)) : r.kind = "stats"
      /\ lastStep'.op = "deleteWardrobeItem.ok"
           => \E r \in Elements(RequestsOf(lastStep'.fx)) :
                r.kind = "loadItems" /\ r.andThen = "delete"
      /\ lastStep'.op = "addWardrobeItem.ok"
           => /\ SetTimeoutFx \in Elements(lastStep'.fx)
              /\ BagCardinality(waits') = BagCardinality(waits) + 1
              /\ \E w \in BagToSet(waits') :
                   /\ w.kind = "uploadTimer"
                   /\ CopiesIn(w, waits') = CopiesIn(w, waits) + 1
      /\ lastStep'.op = "uploadTimer"
           => \E r \in Elements(RequestsOf(lastStep'.fx)) :
                r.kind = "loadItems" /\ r.andThen = "upload"
      /\ ( /\ lastStep'.op \in {"loadItems.ok", "loadItems.failed"}
           /\ lastStep'.arg.req.andThen \in {"delete", "upload"} )
           => \E r \in Elements(RequestsOf(lastStep'.fx)) : r.kind = "stats"
    ]_vars

\* the stats refetched after a delete have been stored: they count the
\* wardrobe without the deleted item
C24_Witness ==
  /\ lastStep.op = "loadStats.ok"
  /\ lastStep.arg.req.andThen = "deleteDone"
  /\ DeletedCount = 1
  /\ stats = StatsOf(serverItems)

\* C27: the task that stores the response of an unfiltered fetch leaves the
\* grid with the same items as the response, each as often as the response
\* holds it, and leaves the response array as it was fetched.
C27_ShuffleIsPermutation ==
  [][ ( /\ lastStep'.op = "loadItems.ok"
        /\ lastStep'.arg.req.category = "all" )
        => /\ Len(wardrobeItems') = Len(lastStep'.arg.response)
           /\ BagOfSeq(wardrobeItems') = BagOfSeq(lastStep'.arg.response)
           /\ lastStep'.arg.data = lastStep'.arg.response
    ]_vars

\* an unfiltered fetch has just been stored in an order that is not the
\* server's
C27_Witness ==
  /\ lastStep.op = "loadItems.ok"
  /\ lastStep.arg.req.category = "all"
  /\ Len(wardrobeItems) = 3
  /\ wardrobeItems # lastStep.arg.response
  /\ BagOfSeq(wardrobeItems) = BagOfSeq(lastStep.arg.response)

\* C28: the task that stores the response of a fetch filtered to one role
\* leaves the list equal to the response, in the response's order: the
\* wardrobe grid after loadItems, the picker list after loadPickerItems.
C28_FilteredKeepsServerOrder ==
  [][ /\ ( /\ lastStep'.op = "loadItems.ok"
           /\ lastStep'.arg.req.category # "all" )
           => /\ wardrobeItems' = lastStep'.arg.response
              /\ wardrobeItems' =
                   FilterType(serverItems, lastStep'.arg.req.category)
      /\ lastStep'.op = "loadPickerItems.ok"
           => pickerItems' = FilterType(Catalog, lastStep'.arg.req.item_type)
    ]_vars

\* the two shirts have just been stored in the server's order
C28_Witness ==
  /\ lastStep.op = "loadItems.ok"
  /\ lastStep.arg.req.category = "shirt"
  /\ Len(wardrobeItems) = 2
  /\ wardrobeItems = FilterType(serverItems, "shirt")

\* C29: a task issues a DELETE request for an item only when it is the
\* delete handler whose confirmation for that item was answered yes (web) or
\* the Delete button of the dialog asking about that item (device); a
\* declined or cancelled confirmation issues no request and changes nothing
\* but the dialog itself.
C29_DeleteOnlyAfterConfirmation ==
  [][ /\ \A r \in Elements(RequestsOf(lastStep'.fx)) :
           r.kind = "delete"
             => \/ /\ lastStep'.op = "deleteItem"
                   /\ platform = "web"
                   /\ lastStep'.arg.confirmed
                   /\ selectedItem # Nil
                   /\ r.clothing_id = selectedItem.clothing_id
                \/ /\ lastStep'.op = "deleteItem.confirm"
                   /\ platform = "native"
                   /\ confirmDialog # Nil
                   /\ r.clothing_id = confirmDialog.clothing_id
      /\ ( \/ lastStep'.op = "deleteItem" /\ ~lastStep'.arg.confirmed
           \/ lastStep'.op = "deleteItem.cancel" )
           => /\ lastStep'.fx = <<>>
              /\ UNCHANGED <<inflight, stats, loadingState, serverItems,
                             category, wardrobeItems, wardrobeLoading,
                             selectedItem, itemModalVisible, itemFeatures,
                             addModalVisible, uploadCategory, waits>>
    ]_vars

\* the dialog on a device has just been answered with Delete and the request
\* for the item it asked about is outstanding
C29_Witness ==
  /\ lastStep.op = "deleteItem.confirm"
  /\ BagIn(DeleteCall(lastStep.arg.item.clothing_id, category), inflight)
  /\ confirmDialog = Nil

\* C30: the task that issues the DELETE request has closed the detail view
\* before the request leaves; the task that handles its success issues the
\* catalogue refetch and nothing else, and the task in which that refetch
\* settles issues the stats refetch; the task that handles its failure issues
\* no request and raises one error alert, whose message is the reason the
\* server gave (the `detail` of a JSON body, or a body that is other text)
\* and a generic message when it gave none.
C30_DeleteFlow ==
  [][ /\ (\E r \in Elements(RequestsOf(lastStep'.fx)) : r.kind = "delete")
           => /\ \E r \in Elements(RequestsOf(lastStep'.fx)) :
                   Precedes(CloseItemModalFx, Request(r), lastStep'.fx)
              /\ ~itemModalVisible'
              /\ selectedItem' = Nil
      /\ lastStep'.op = "deleteWardrobeItem.ok"
           => /\ Len(RequestsOf(lastStep'.fx)) = 1
              /\ RequestsOf(lastStep'.fx)[1].kind = "loadItems"
      /\ ( /\ lastStep'.op \in {"loadItems.ok", "loadItems.failed"}
           /\ lastStep'.arg.req.andThen = "delete" )
           => /\ Len(RequestsOf(lastStep'.fx)) = 1
              /\ RequestsOf(lastStep'.fx)[1].kind = "stats"
      /\ lastStep'.op = "deleteWardrobeItem.failed"
           => LET f == lastStep'.arg.failure
                  reason ==
                    IF f.rejected THEN NULL
                    ELSE IF f.json THEN f.detail
                    ELSE IF f.text # "" THEN f.text ELSE NULL
                  alerts == SelectSeq(lastStep'.fx, LAMBDA e : e.e = "alert")
              IN  /\ RequestsOf(lastStep'.fx) = <<>>
                  /\ UNCHANGED <<stats, wardrobeItems>>
                  /\ Len(alerts) = 1
                  /\ alerts[1].title = "Error"
                  /\ reason # NULL => alerts[1].message = reason
                  /\ reason = NULL
                       => alerts[1].message \in
                            { "Failed to delete item", "Network request failed",
                              "Request failed with status 404",
                              "Request failed with status 500" }
    ]_vars

\* a delete has just failed with the server's reason in the alert
C30_Witness ==
  /\ lastStep.op = "deleteWardrobeItem.failed"
  /\ lastStep.arg.failure.detail = "Item not found"
  /\ AlertFx("Error", "Item not found") \in Elements(lastStep.fx)
  /\ ~loadingState.isLoading

\* C31: the task in which a feature lookup fails, with a 404 or any other
\* failure, leaves the features absent, changes neither the visibility of
\* the detail view nor the item it shows (so a view open for the item stays
\* open for it), raises no alert and issues no request.
C31_FeatureFailureIsNoData ==
  [][ lastStep'.op = "getItemFeatures.failed"
        => /\ itemFeatures' = Nil
           /\ UNCHANGED <<itemModalVisible, selectedItem, loadingState>>
           /\ \A i \in 1..Len(lastStep'.fx) : lastStep'.fx[i].e # "alert"
           /\ RequestsOf(lastStep'.fx) = <<>>
           /\ ( /\ itemModalVisible
                /\ selectedItem # Nil
                /\ selectedItem.clothing_id = lastStep'.arg.req.clothing_id )
                => /\ itemModalVisible'
                   /\ selectedItem'.clothing_id = lastStep'.arg.req.clothing_id
    ]_vars

\* the lookup for the item shown has just answered 404: the view is open for
\* the item, without features
C31_Witness ==
  /\ lastStep.op = "getItemFeatures.failed"
  /\ lastStep.arg.failure.status = 404
  /\ itemModalVisible
  /\ selectedItem # Nil
  /\ selectedItem.clothing_id = lastStep.arg.req.clothing_id
  /\ itemFeatures = Nil

\* C32: the create-outfit button pressed on a wardrobe item (role r, id x)
\* leaves the builder's slots at {r: x, the other two null}, issues exactly
\* one resolver request, a build request that carries x for r and nothing
\* for the other two roles, and leaves no anchor pending.
C32_AnchorBuildsOnce ==
  lastStep.op = "createOutfitWithItem"
    => LET r == lastStep.arg.item.item_type
           x == lastStep.arg.item.clothing_id
       IN  /\ currentTab = "outfits"
           /\ autoGenerateItem = Nil
           /\ selectedItems = [q \in Roles |-> IF q = r THEN x ELSE NULL]
           /\ ResolverRequestsOfLastStep =
                 << [kind |-> "build",
                     body |-> [shirt_id |-> IF r = "shirt" THEN x
                                            ELSE UNDEFINED,
                               pants_id |-> IF r = "pants" THEN x
                                            ELSE UNDEFINED,
                               shoes_id |-> IF r = "shoes" THEN x
                                            ELSE UNDEFINED]] >>

\* the field of a build request that carries the slot of role r
IdField(body, r) ==
  CASE r = "shirt" -> body.shirt_id
    [] r = "pants" -> body.pants_id
    [] r = "shoes" -> body.shoes_id

\* the request body carries the identifier of every filled slot of `slots`
\* and nothing for an empty one
CarriesExactly(body, slots) ==
  \A r \in Roles :
    IF slots[r] # NULL THEN IdField(body, r) = slots[r]
    ELSE IdField(body, r) = UNDEFINED

\* C33: the build request literal carries the identifier of every non-null
\* slot and omits every null slot, for each of the eight filled/empty
\* combinations of the three slots; and every build request a task issues is
\* that literal for the slots the task leaves.
C33_BuildRequestCarriesFilledSlots ==
  /\ \A filled \in SUBSET Roles :
       LET slots == [r \in Roles |->
                       IF r \in filled
                       THEN CHOOSE i \in {"S1", "P1", "H1"} :
                              \E k \in 1..Len(Catalog) :
                                /\ Catalog[k].clothing_id = i
                                /\ Catalog[k].item_type = r
                       ELSE NULL]
       IN  CarriesExactly(BuildOutfitRequest(slots), slots)
  /\ \A req \in Elements(RequestsOf(lastStep.fx)) :
       req.kind = "build" => CarriesExactly(req.body, selectedItems)

\* the fill button has just been pressed with the shirt and the shoes slots
\* filled and the pants slot empty
C33_Witness ==
  /\ lastStep.op = "generateOutfitFromBuilder"
  /\ selectedItems.shirt # NULL
  /\ selectedItems.pants = NULL
  /\ selectedItems.shoes # NULL
  /\ BagIn([kind |-> "build",
            body |-> [shirt_id |-> selectedItems.shirt, pants_id |-> UNDEFINED,
                      shoes_id |-> selectedItems.shoes]], inflight)

\* C34: every rate request a task issues carries the shirt, pants and shoes
\* identifiers of the outfit held when the star was pressed and the star
\* pressed, which is one of 1..5; handleRateOutfit called with no outfit held
\* issues no request and changes no state.
C34_RateRequestCarriesDisplayedOutfit ==
  [][ /\ \A req \in Elements(RequestsOf(lastStep'.fx)) :
           req.kind = "rate"
             => /\ lastStep'.op = "handleRateOutfit"
                /\ currentOutfit # Nil
                /\ req.body.shirt_id = currentOutfit.shirt
                /\ req.body.pants_id = currentOutfit.pants
                /\ req.body.shoes_id = currentOutfit.shoes
                /\ req.body.rating = lastStep'.arg.rating
                /\ req.body.rating \in 1..5
      /\ (lastStep'.op = "handleRateOutfit" /\ currentOutfit = Nil)
           => /\ lastStep'.fx = <<>>
              /\ UNCHANGED <<appVars, tabVars, inflight, timers, rateRequests,
                             viewVars, wardrobeVars>>
    ]_vars

\* star 2 has just been pressed on a displayed outfit and the request with
\* that outfit's identifiers is outstanding
C34_Witness ==
  /\ lastStep.op = "handleRateOutfit"
  /\ lastStep.arg.rating = 2
  /\ currentOutfit # Nil
  /\ BagIn([kind |-> "rate",
            body |-> [shirt_id |-> currentOutfit.shirt,
                      pants_id |-> currentOutfit.pants,
                      shoes_id |-> currentOutfit.shoes, rating |-> 2]],
           inflight)

\* C35: the reset timer of a successful rating leaves the slots, the outfit
\* and the rating alone when the task that ran just before it, while the
\* timer was pending, was the user's newer action: a resolver call returning
\* a new outfit, a press on a recent card, or a select or a clear of a slot.
C35_ResetSparesNewerState ==
  [][ ( /\ lastStep'.op = "resetTimer"
        /\ lastStep.op \in {"resolver.ok", "handleRecentOutfitPress",
                            "selectItemForSlot", "clearItemSlot"} )
        => UNCHANGED <<selectedItems, currentOutfit, lastRating>>
    ]_vars

\* C36: a recorded star value refers to a displayed outfit: whenever
\* lastRating is set, currentOutfit is set.
C36_RatingRefersToOutfit ==
  lastRating # NoRating => currentOutfit # Nil

\* C37: the item a select has just placed into a slot is of that slot's type.
C37_PickedItemHasSlotType ==
  lastStep.op = "selectItemForSlot"
    => \E k \in 1..Len(Catalog) :
         /\ Catalog[k].clothing_id = selectedItems[lastStep.arg.slot]
         /\ Catalog[k].item_type = lastStep.arg.slot

\* C38: in the wardrobe tab, when no item fetch is outstanding, the loading
\* flag is false and the items shown are what the server lists for the
\* selected category: the whole wardrobe in some order for 'all', the
\* category's items in server order otherwise.
C38_SettledShowsSelectedCategory ==
  ( /\ wardrobeMounted
    /\ \A r \in BagToSet(inflight) : r.kind # "loadItems" )
    => /\ ~wardrobeLoading
       /\ IF category = "all"
          THEN /\ Len(wardrobeItems) = Len(serverItems)
               /\ Elements(wardrobeItems) = Elements(serverItems)
          ELSE wardrobeItems = FilterType(serverItems, category)

\* C39: in the wardrobe tab the overlay is shown only by a confirmed delete
\* or an upload, and whenever it is shown it is eventually cleared, whether
\* the call succeeds, is rejected by the server or fails on the network,
\* provided every outstanding call settles and every pending timer fires.
C39_OverlayEventuallyCleared ==
  loadingState.isLoading ~> ~loadingState.isLoading

\* an upload has gone all the way: the item is stored, the timer has fired,
\* the list and the stats refetches have settled and the overlay is cleared
C39_Witness ==
  /\ lastStep.op \in {"loadStats.ok", "loadStats.failed"}
  /\ lastStep.arg.req.andThen = "clearLoading"
  /\ UploadedCount = 1
  /\ waits = EmptyBag
  /\ ~loadingState.isLoading

====
